---------------------------- MODULE Spec2Model ----------------------------
(***************************************************************************)
(* JSON-schema-to-grammar converter (common/json-schema-to-grammar.cpp).   *)
(*                                                                         *)
(* Strings are sequences of symbols.  A symbol is a single punctuation     *)
(* character, a single digit, a two-character backslash escape, or a       *)
(* maximal run of letters (a word).  Every string of the model is written  *)
(* in that canonical spelling, so concatenation of strings is \o and       *)
(* string equality is equality of sequences.                               *)
(***************************************************************************)
EXTENDS Integers, Sequences, FiniteSets, TLC

(***************************************************************************)
(* Bounds of the model.                                                    *)
(***************************************************************************)
MaxStack == 12       \* frames a call stack holds before it is exhausted
MaxDerivation == 8   \* rule references a derivation nests
MaxRules == 5        \* rules the table holds when _add_rule is called on its own
MaxPattern == 3      \* characters between the anchors of a pattern
MaxTimes == 3        \* the largest finite count build_repetition is called with

IntMax == 2147483647

(***************************************************************************)
(* Alphabet.                                                               *)
(***************************************************************************)
Digits == <<"0", "1", "2", "3", "4", "5", "6", "7", "8", "9">>

DigitSyms == {Digits[i] : i \in 1..10}

\* The symbols of [a-zA-Z0-9-]+, in the order of their bytes.
NameSymOrder ==
    <<"-", "0", "1", "2", "3", "4", "5", "6", "7", "8", "9", "A", "B", "F",
      "T", "X", "Z", "a", "additional", "additionalProperties", "allOf",
      "alternative", "anyOf", "array", "b", "bfnrt", "boolean", "c", "char",
      "const", "date", "decimal", "defs", "dot", "eE", "enum", "f", "false",
      "foo", "format", "https", "input", "integer", "integral", "item",
      "items", "kv", "kvs", "maxItems", "maxLength", "minItems",
      "minLength", "next", "null", "number", "object", "oneOf", "optional",
      "part", "pattern", "prefixItems", "properties", "ref", "required",
      "rest", "root", "space", "string", "time", "true", "tuple", "type",
      "u", "uuid", "value", "x", "y">>

\* [a-zA-Z0-9-]: the characters INVALID_RULE_CHARS_RE leaves alone.
IsNameSym(s) == \E i \in 1..Len(NameSymOrder) : NameSymOrder[i] = s

LQ == "\""      \* the quote that delimits a grammar literal
EQ == "\\\""    \* an escaped quote inside a grammar literal
EBS == "\\\\"   \* an escaped backslash
SP == " "
NL == "\n"

(***************************************************************************)
(* String utilities.                                                       *)
(***************************************************************************)
RECURSIVE join(_, _)
join(items, separator) ==
    IF items = <<>> THEN <<>>
    ELSE IF Len(items) = 1 THEN items[1]
    ELSE items[1] \o separator \o join(Tail(items), separator)

RECURSIVE repeat(_, _)
repeat(str, n) == IF n = 0 THEN <<>> ELSE str \o repeat(str, n - 1)

RECURSIVE to_string(_)
to_string(i) ==
    IF i < 10 THEN <<Digits[i + 1]>>
    ELSE to_string(i \div 10) \o <<Digits[(i % 10) + 1]>>

\* Index of the first occurrence of sym in str at or after from, 0 if none.
RECURSIVE find(_, _, _)
find(str, sym, from) ==
    IF from > Len(str) THEN 0
    ELSE IF str[from] = sym THEN from
    ELSE find(str, sym, from + 1)

RECURSIVE find_last_of(_, _, _)
find_last_of(str, sym, from) ==
    IF from < 1 THEN 0
    ELSE IF str[from] = sym THEN from
    ELSE find_last_of(str, sym, from - 1)

RECURSIVE split(_, _)
split(str, delimiter) ==
    LET e == find(str, delimiter, 1)
    IN  IF e = 0 THEN <<str>>
        ELSE <<SubSeq(str, 1, e - 1)>> \o split(SubSeq(str, e + 1, Len(str)), delimiter)

StartsWith(str, prefix) ==
    Len(str) >= Len(prefix) /\ SubSeq(str, 1, Len(prefix)) = prefix

\* regex_replace(name, INVALID_RULE_CHARS_RE, "-"): every maximal run of
\* characters outside [a-zA-Z0-9-] becomes one "-".
RECURSIVE Sanitize(_, _)
Sanitize(name, in_run) ==
    IF name = <<>> THEN <<>>
    ELSE IF IsNameSym(Head(name)) THEN <<Head(name)>> \o Sanitize(Tail(name), FALSE)
    ELSE IF in_run THEN Sanitize(Tail(name), TRUE)
    ELSE <<"-">> \o Sanitize(Tail(name), TRUE)

\* GRAMMAR_LITERAL_ESCAPE_RE with GRAMMAR_LITERAL_ESCAPES
RECURSIVE EscapeLiteral(_)
EscapeLiteral(s) ==
    IF s = <<>> THEN <<>>
    ELSE (CASE Head(s) = LQ   -> <<EQ>>
            [] Head(s) = NL   -> <<"\\n">>
            [] Head(s) = "\r" -> <<"\\r">>
            [] OTHER          -> <<Head(s)>>) \o EscapeLiteral(Tail(s))

format_literal(literal) == <<LQ>> \o EscapeLiteral(literal) \o <<LQ>>

Lit(s) == <<LQ>> \o s \o <<LQ>>

(***************************************************************************)
(* build_repetition                                                        *)
(***************************************************************************)
\* A single optional group, whatever up_to_n is.
OneOptional(item_rule, separator_rule, up_to_n, prefix_with_sep) ==
    IF up_to_n = 0 THEN <<>>
    ELSE <<"(">>
         \o (IF prefix_with_sep /\ separator_rule # <<>>
             THEN separator_rule \o <<SP>> \o item_rule
             ELSE item_rule)
         \o <<")", "?">>

RECURSIVE opt_repetitions(_, _, _, _)
opt_repetitions(item_rule, separator_rule, up_to_n, prefix_with_sep) ==
    LET content == IF prefix_with_sep /\ separator_rule # <<>>
                   THEN separator_rule \o <<SP>> \o item_rule
                   ELSE item_rule
    IN  IF up_to_n = 0 THEN <<>>
        ELSE IF up_to_n = 1 THEN <<"(">> \o content \o <<")", "?">>
        ELSE IF separator_rule # <<>> /\ ~prefix_with_sep
        THEN <<"(">> \o content \o <<SP>>
             \o opt_repetitions(item_rule, separator_rule, up_to_n - 1, TRUE)
             \o <<")", "?">>
        ELSE LET res == repeat(<<"(">> \o content \o <<SP>>, up_to_n)
             IN  SubSeq(res, 1, Len(res) - 1) \o repeat(<<")", "?">>, up_to_n)

build_repetition(item_rule, min_items, max_items, separator_rule, item_rule_is_literal) ==
    IF separator_rule = <<>> /\ min_items = 0 /\ max_items = 1
    THEN item_rule \o <<"?">>
    ELSE IF separator_rule = <<>> /\ min_items = 1 /\ max_items = IntMax
    THEN item_rule \o <<"+">>
    ELSE
    LET r0 == IF min_items > 0
              THEN IF item_rule_is_literal /\ separator_rule = <<>>
                   THEN <<LQ>> \o repeat(SubSeq(item_rule, 2, Len(item_rule) - 1), min_items)
                        \o <<LQ>>
                   ELSE join([i \in 1..min_items |-> item_rule],
                             IF separator_rule = <<>> THEN <<SP>>
                             ELSE <<SP>> \o separator_rule \o <<SP>>)
              ELSE <<>>
        r1 == IF min_items > 0 /\ max_items # min_items THEN r0 \o <<SP>> ELSE r0
        item_operator == <<"(">>
                         \o (IF separator_rule = <<>> THEN <<>> ELSE separator_rule \o <<SP>>)
                         \o item_rule \o <<")">>
    IN  IF max_items # IntMax
        THEN r1 \o opt_repetitions(item_rule, separator_rule, max_items - min_items,
                                   min_items > 0)
        ELSE IF min_items = 0 /\ separator_rule # <<>>
        THEN <<"(">> \o item_rule \o <<SP>> \o item_operator \o <<"*", ")", "?">>
        ELSE r1 \o item_operator \o <<"*">>

(***************************************************************************)
(* JSON values (nlohmann::ordered_json).  An object keeps its members in   *)
(* insertion order in m; an array keeps its elements in m with empty keys. *)
(***************************************************************************)
JNull == [t |-> "null", m |-> <<>>, s |-> <<>>, n |-> 0, b |-> FALSE]
JBool(b) == [t |-> "bool", m |-> <<>>, s |-> <<>>, n |-> 0, b |-> b]
JInt(n) == [t |-> "int", m |-> <<>>, s |-> <<>>, n |-> n, b |-> FALSE]
JStr(s) == [t |-> "str", m |-> <<>>, s |-> s, n |-> 0, b |-> FALSE]
JObj(m) == [t |-> "obj", m |-> m, s |-> <<>>, n |-> 0, b |-> FALSE]
JArr(a) == [t |-> "arr", m |-> [i \in 1..Len(a) |-> [k |-> <<>>, v |-> a[i]]],
            s |-> <<>>, n |-> 0, b |-> FALSE]
KV(k, v) == [k |-> k, v |-> v]

\* json::contains(key): false on anything but an object
contains(j, key) == j.t = "obj" /\ \E i \in 1..Len(j.m) : j.m[i].k = key

\* json::operator[](key) on a member that exists
at(j, key) == j.m[CHOOSE i \in 1..Len(j.m) : j.m[i].k = key].v

\* json::empty(): null, or an object or array without members
empty(j) == j.t = "null" \/ (j.t \in {"obj", "arr"} /\ j.m = <<>>)

\* n[key] = v on an object that has the member
SetMember(j, key, v) ==
    [j EXCEPT !.m = [i \in 1..Len(j.m) |->
                        IF j.m[i].k = key THEN KV(key, v) ELSE j.m[i]]]

RECURSIVE dump(_)
RECURSIVE DumpMembers(_, _)
DumpMembers(m, is_obj) ==
    IF m = <<>> THEN <<>>
    ELSE (IF is_obj THEN <<LQ>> \o m[1].k \o <<LQ, ":">> ELSE <<>>)
         \o dump(m[1].v)
         \o (IF Len(m) > 1 THEN <<",">> ELSE <<>>)
         \o DumpMembers(Tail(m), is_obj)

\* json::dump()
dump(j) ==
    CASE j.t = "null" -> <<"null">>
      [] j.t = "bool" -> IF j.b THEN <<"true">> ELSE <<"false">>
      [] j.t = "int"  -> to_string(j.n)
      [] j.t = "str"  -> <<LQ>> \o j.s \o <<LQ>>
      [] j.t = "obj"  -> <<"{">> \o DumpMembers(j.m, TRUE) \o <<"}">>
      [] j.t = "arr"  -> <<"[">> \o DumpMembers(j.m, FALSE) \o <<"]">>

\* Keys of the schema keywords.
K_ref == <<"$", "ref">>
K_defs == <<"$", "defs">>
K_type == <<"type">>
K_format == <<"format">>
K_properties == <<"properties">>
K_required == <<"required">>
K_additionalProperties == <<"additionalProperties">>
K_allOf == <<"allOf">>
K_anyOf == <<"anyOf">>
K_oneOf == <<"oneOf">>
K_enum == <<"enum">>
K_const == <<"const">>
K_items == <<"items">>
K_prefixItems == <<"prefixItems">>
K_minItems == <<"minItems">>
K_maxItems == <<"maxItems">>
K_pattern == <<"pattern">>
K_minLength == <<"minLength">>
K_maxLength == <<"maxLength">>

(***************************************************************************)
(* The built-in rule catalogs.                                             *)
(***************************************************************************)
N_space == <<"space">>
N_root == <<"root">>
N_integral_part == <<"integral", "-", "part">>
N_decimal_part == <<"decimal", "-", "part">>
N_date_time == <<"date", "-", "time">>

SPACE_RULE == <<LQ, SP, LQ, "?">>

Class09 == <<"[", "0", "-", "9", "]">>
Class19 == <<"[", "1", "-", "9", "]">>
Hex == <<"[", "0", "-", "9", "a", "-", "f", "A", "-", "F", "]">>

_up_to_15_digits == build_repetition(Class09, 0, 15, <<>>, FALSE)

BuiltinRule(content, deps) == [content |-> content, deps |-> deps]

PRIMITIVE_RULES ==
    (<<"boolean">> :> BuiltinRule(
        <<"(">> \o Lit(<<"true">>) \o <<SP, "|", SP>> \o Lit(<<"false">>)
        \o <<")", SP, "space">>, <<>>))
 @@ (N_decimal_part :> BuiltinRule(Class09 \o <<SP>> \o _up_to_15_digits, <<>>))
 @@ (N_integral_part :> BuiltinRule(
        Class09 \o <<SP, "|", SP>> \o Class19 \o <<SP>> \o _up_to_15_digits, <<>>))
 @@ (<<"number">> :> BuiltinRule(
        <<"(">> \o Lit(<<"-">>) \o <<"?", SP>> \o N_integral_part \o <<")", SP>>
        \o <<"(">> \o Lit(<<".">>) \o <<SP>> \o N_decimal_part \o <<")", "?", SP>>
        \o <<"(", "[", "eE", "]", SP, "[", "-", "+", "]", "?", SP>> \o N_integral_part
        \o <<")", "?", SP, "space">>,
        <<N_integral_part, N_decimal_part>>))
 @@ (<<"integer">> :> BuiltinRule(
        <<"(">> \o Lit(<<"-">>) \o <<"?", SP>> \o N_integral_part \o <<")", SP, "space">>,
        <<N_integral_part>>))
 @@ (<<"value">> :> BuiltinRule(
        <<"object", SP, "|", SP, "array", SP, "|", SP, "string", SP, "|", SP,
          "number", SP, "|", SP, "boolean", SP, "|", SP, "null">>,
        <<<<"object">>, <<"array">>, <<"string">>, <<"number">>, <<"boolean">>,
          <<"null">>>>))
 @@ (<<"object">> :> BuiltinRule(
        Lit(<<"{">>) \o <<SP, "space", SP, "(", SP, "string", SP>> \o Lit(<<":">>)
        \o <<SP, "space", SP, "value", SP, "(">> \o Lit(<<",">>)
        \o <<SP, "space", SP, "string", SP>> \o Lit(<<":">>)
        \o <<SP, "space", SP, "value", ")", "*", SP, ")", "?", SP>> \o Lit(<<"}">>)
        \o <<SP, "space">>,
        <<<<"string">>, <<"value">>>>))
 @@ (<<"array">> :> BuiltinRule(
        Lit(<<"[">>) \o <<SP, "space", SP, "(", SP, "value", SP, "(">> \o Lit(<<",">>)
        \o <<SP, "space", SP, "value", ")", "*", SP, ")", "?", SP>> \o Lit(<<"]">>)
        \o <<SP, "space">>,
        <<<<"value">>>>))
 @@ (<<"uuid">> :> BuiltinRule(
        Lit(<<EQ>>) \o <<SP>> \o repeat(Hex, 8) \o <<SP>>
        \o Lit(<<"-">>) \o <<SP>> \o repeat(Hex, 4) \o <<SP>>
        \o Lit(<<"-">>) \o <<SP>> \o repeat(Hex, 4) \o <<SP>>
        \o Lit(<<"-">>) \o <<SP>> \o repeat(Hex, 4) \o <<SP>>
        \o Lit(<<"-">>) \o <<SP>> \o repeat(Hex, 12) \o <<SP>>
        \o Lit(<<EQ>>) \o <<SP, "space">>, <<>>))
 @@ (<<"char">> :> BuiltinRule(
        <<"[", "^", LQ, EBS, "]", SP, "|", SP>> \o Lit(<<EBS>>)
        \o <<SP, "(", "[", LQ, EBS, "/", "bfnrt", "]", SP, "|", SP>> \o Lit(<<"u">>)
        \o <<SP>> \o Hex \o <<SP>> \o Hex \o <<SP>> \o Hex \o <<SP>> \o Hex \o <<")">>,
        <<>>))
 @@ (<<"string">> :> BuiltinRule(
        Lit(<<EQ>>) \o <<SP, "char", "*", SP>> \o Lit(<<EQ>>) \o <<SP, "space">>,
        <<<<"char">>>>))
 @@ (<<"null">> :> BuiltinRule(Lit(<<"null">>) \o <<SP, "space">>, <<>>))

STRING_FORMAT_RULES ==
    (<<"date">> :> BuiltinRule(
        Class09 \o <<SP>> \o Class09 \o <<SP>> \o Class09 \o <<SP>> \o Class09 \o <<SP>>
        \o Lit(<<"-">>) \o <<SP, "(", SP>> \o Lit(<<"0">>) \o <<SP>> \o Class19
        \o <<SP, "|", SP>> \o Lit(<<"1">>) \o <<SP, "[", "0", "-", "2", "]", SP, ")", SP>>
        \o Lit(<<"-">>) \o <<SP, "(", SP>> \o Lit(<<"0">>) \o <<SP>> \o Class19
        \o <<SP, "|", SP, "[", "1", "-", "2", "]", SP>> \o Class09 \o <<SP, "|", SP>>
        \o Lit(<<"3">>) \o <<SP, "[", "0", "-", "1", "]", SP, ")">>, <<>>))
 @@ (<<"time">> :> BuiltinRule(
        <<"(", "[", "0", "1", "]", SP>> \o Class09 \o <<SP, "|", SP>> \o Lit(<<"2">>)
        \o <<SP, "[", "0", "-", "3", "]", ")", SP>> \o Lit(<<":">>)
        \o <<SP, "[", "0", "-", "5", "]", SP>> \o Class09 \o <<SP>> \o Lit(<<":">>)
        \o <<SP, "[", "0", "-", "5", "]", SP>> \o Class09 \o <<SP, "(", SP>>
        \o Lit(<<".">>) \o <<SP>> \o Class09 \o <<SP>> \o Class09 \o <<SP>> \o Class09
        \o <<SP, ")", "?", SP, "(", SP>> \o Lit(<<"Z">>) \o <<SP, "|", SP, "(", SP>>
        \o Lit(<<"+">>) \o <<SP, "|", SP>> \o Lit(<<"-">>)
        \o <<SP, ")", SP, "(", SP, "[", "0", "1", "]", SP>> \o Class09 \o <<SP, "|", SP>>
        \o Lit(<<"2">>) \o <<SP, "[", "0", "-", "3", "]", SP, ")", SP>> \o Lit(<<":">>)
        \o <<SP, "[", "0", "-", "5", "]", SP>> \o Class09 \o <<SP, ")">>, <<>>))
 @@ (N_date_time :> BuiltinRule(
        <<"date", SP>> \o Lit(<<"T">>) \o <<SP, "time">>, <<<<"date">>, <<"time">>>>))
 @@ (<<"date", "-", "string">> :> BuiltinRule(
        Lit(<<EQ>>) \o <<SP, "date", SP>> \o Lit(<<EQ>>) \o <<SP, "space">>,
        <<<<"date">>>>))
 @@ (<<"time", "-", "string">> :> BuiltinRule(
        Lit(<<EQ>>) \o <<SP, "time", SP>> \o Lit(<<EQ>>) \o <<SP, "space">>,
        <<<<"time">>>>))
 @@ (N_date_time \o <<"-", "string">> :> BuiltinRule(
        Lit(<<EQ>>) \o <<SP>> \o N_date_time \o <<SP>> \o Lit(<<EQ>>) \o <<SP, "space">>,
        <<N_date_time>>))

is_reserved_name(name) ==
    name \in ({N_root} \cup DOMAIN PRIMITIVE_RULES \cup DOMAIN STRING_FORMAT_RULES)

(***************************************************************************)
(* The rule table: std::map<std::string, std::string> _rules.              *)
(***************************************************************************)
Put(rules, key, rule) ==
    [k \in DOMAIN rules \cup {key} |-> IF k = key THEN rule ELSE rules[k]]

\* A loop that stops at the first suffix that is absent, whatever is bound.
RECURSIVE FirstAbsent(_, _, _, _)
FirstAbsent(rules, esc_name, rule, i) ==
    IF (esc_name \o to_string(i)) \in DOMAIN rules
    THEN FirstAbsent(rules, esc_name, rule, i + 1)
    ELSE i

\* The suffix the while loop of _add_rule stops at.
RECURSIVE FirstFree(_, _, _, _)
FirstFree(rules, esc_name, rule, i) ==
    IF (esc_name \o to_string(i)) \in DOMAIN rules
       /\ rules[esc_name \o to_string(i)] # rule
    THEN FirstFree(rules, esc_name, rule, i + 1)
    ELSE i

\* A store under the sanitized name, whatever is bound to it.
KeyAsIs(rules, esc_name, rule) == esc_name

\* Lines 213-221: the key the rule is stored under.
Key(rules, esc_name, rule) ==
    IF esc_name \notin DOMAIN rules \/ rules[esc_name] = rule THEN esc_name
    ELSE esc_name \o to_string(FirstFree(rules, esc_name, rule, 0))

\* Lines 215 and 222-223: the table after the store, and the key returned.
Install(rules, key, rule) == [rules |-> Put(rules, key, rule), ret |-> key]

\* _add_rule(name, rule): the table after the call and the name returned.
_add_rule(rules, name, rule) == Install(rules, Key(rules, Sanitize(name, FALSE), rule), rule)

\* The result a of an _add_rule call, beside the error buffer.
WithErrors(a, errors) == [rules |-> a.rules, errors |-> errors, ret |-> a.ret]

\* _add_primitive(name, rule): the table and the error buffer after the
\* call, and the name returned.  st is the table, the buffer and the name
\* while the loop over rule.deps runs.
RECURSIVE AddPrimitiveDeps(_, _)
RECURSIVE _add_primitive(_, _, _, _)
AddDep(st, dep) ==
    IF dep \notin DOMAIN PRIMITIVE_RULES /\ dep \notin DOMAIN STRING_FORMAT_RULES
    THEN [st EXCEPT !.errors = Append(st.errors, <<"Rule ">> \o dep \o <<" not known">>)]
    ELSE IF dep \notin DOMAIN st.rules
    THEN [_add_primitive(st.rules, st.errors, dep,
                         IF dep \in DOMAIN PRIMITIVE_RULES THEN PRIMITIVE_RULES[dep]
                         ELSE STRING_FORMAT_RULES[dep])
          EXCEPT !.ret = st.ret]
    ELSE st

AddPrimitiveDeps(st, deps) ==
    IF deps = <<>> THEN st ELSE AddPrimitiveDeps(AddDep(st, Head(deps)), Tail(deps))

_add_primitive(rules, errors, name, rule) ==
    AddPrimitiveDeps(WithErrors(_add_rule(rules, name, rule.content), errors), rule.deps)

\* _add_rule(name, rule) once p, the result of an _add_primitive call, is in.
AddRuleAfter(p, name, rule) == WithErrors(_add_rule(p.rules, name, rule), p.errors)

(***************************************************************************)
(* State of one conversion (json_schema_to_grammar with its converter).    *)
(***************************************************************************)
VARIABLES
    pc,                     \* where json_schema_to_grammar stands
    fetch_json,             \* the document _fetch_json returns
    fetched,                \* the URIs _fetch_json was called with, in order
    root_schema,            \* the schema json_schema_to_grammar was given
    copy,                   \* its copy, which resolve_refs rewrites
    rstack,                 \* the active resolve_refs calls, innermost last
    vstack,                 \* the active visit calls that await a nested visit
    arg,                    \* the arguments of the visit call being entered
    ret,                    \* the value the last visit returned
    _rules,
    _refs,
    _refs_being_resolved,
    _errors,
    _warnings,
    output                  \* what json_schema_to_grammar gave back

vars == <<pc, root_schema, fetch_json, fetched, copy, rstack, vstack, arg, ret, _rules, _refs,
          _refs_being_resolved, _errors, _warnings, output>>

(***************************************************************************)
(* resolve_refs.  A frame of rstack is one call resolve_refs(schema, url): *)
(* doc is its schema (changed in place), todo the nodes visit_refs has     *)
(* still to visit, in visiting order, each a path of member indexes, and   *)
(* pending the $ref whose remote document is being resolved by the frame   *)
(* above.                                                                  *)
(***************************************************************************)
RECURSIVE NodeAt(_, _)
NodeAt(j, path) == IF path = <<>> THEN j ELSE NodeAt(j.m[Head(path)].v, Tail(path))

RECURSIVE SetAt(_, _, _)
SetAt(j, path, v) ==
    IF path = <<>> THEN v
    ELSE [j EXCEPT !.m[Head(path)].v = SetAt(j.m[Head(path)].v, Tail(path), v)]

Children(j, path) == [i \in 1..Len(j.m) |-> path \o <<i>>]

HTTPS == <<"https", ":", "/", "/">>

\* ref.substr(0, ref.find('#'))
BaseUrl(ref) ==
    LET h == find(ref, "#", 1) IN IF h = 0 THEN ref ELSE SubSeq(ref, 1, h - 1)

\* ref.substr(ref.find('#') + 1); find returns npos when there is no '#',
\* and npos + 1 is 0
Pointer(ref) == SubSeq(ref, find(ref, "#", 1) + 1, Len(ref))

\* The loop over the pointer's tokens: the sub-schema, or the error.
RECURSIVE WalkPointer(_, _, _, _)
WalkPointer(target, tokens, i, ref) ==
    IF i > Len(tokens) THEN [ok |-> TRUE, target |-> target, error |-> <<>>]
    ELSE LET sel == tokens[i]
         IN  IF target.t = "null" \/ ~contains(target, sel)
             THEN [ok |-> FALSE, target |-> target,
                   error |-> <<"Error resolving ref ">> \o ref \o <<": ">> \o sel
                             \o <<" not in ">> \o dump(target)]
             ELSE WalkPointer(at(target, sel), tokens, i + 1, ref)

\* Lines 595-605: _refs and _errors after the pointer of ref was followed
\* from target.
StoreTarget(refs, errors, ref, target) ==
    LET w == WalkPointer(target, split(Pointer(ref), "/"), 2, ref)
    IN  IF w.ok THEN [refs |-> Put(refs, ref, w.target), errors |-> errors]
        ELSE [refs |-> refs, errors |-> Append(errors, w.error)]

\* Line 584: the ref has no fragment, or an empty one.
NoFragment(ref) == find(ref, "#", 1) = 0 \/ Pointer(ref) = <<>>

RFrame(doc, url) == [doc |-> doc, url |-> url, todo |-> <<<<>>>>, pending |-> <<>>]

RTop == rstack[Len(rstack)]
RNode == NodeAt(RTop.doc, Head(RTop.todo))
SetRTop(f) == [rstack EXCEPT ![Len(rstack)] = f]

\* visit_refs on an array, or on an object without $ref: visit the members.
VisitRefsDescend ==
    /\ pc = "resolve_refs"
    /\ RTop.todo # <<>>
    /\ RNode.t \in {"arr", "obj"}
    /\ ~contains(RNode, K_ref)
    /\ rstack' = SetRTop([RTop EXCEPT !.todo = Children(RNode, Head(RTop.todo))
                                               \o Tail(RTop.todo)])
    /\ UNCHANGED <<pc, root_schema, fetch_json, fetched, copy, vstack, arg, ret, _rules, _refs,
                   _refs_being_resolved, _errors, _warnings, output>>

\* visit_refs on a scalar: nothing to do.
VisitRefsScalar ==
    /\ pc = "resolve_refs"
    /\ RTop.todo # <<>>
    /\ RNode.t \notin {"arr", "obj"}
    /\ rstack' = SetRTop([RTop EXCEPT !.todo = Tail(RTop.todo)])
    /\ UNCHANGED <<pc, root_schema, fetch_json, fetched, copy, vstack, arg, ret, _rules, _refs,
                   _refs_being_resolved, _errors, _warnings, output>>

\* visit_refs on an object with $ref, every case but the fetch of a remote
\* document.
VisitRefsRef ==
    /\ pc = "resolve_refs"
    /\ RTop.todo # <<>>
    /\ contains(RNode, K_ref)
    /\ LET n == Head(RTop.todo)
           ref == at(RNode, K_ref).s
           done == [RTop EXCEPT !.todo = Tail(RTop.todo)]
       IN  IF ref \in DOMAIN _refs
           THEN /\ rstack' = SetRTop(done)
                /\ UNCHANGED <<_refs, _errors>>
           ELSE IF StartsWith(ref, HTTPS)
           THEN /\ BaseUrl(ref) \in DOMAIN _refs
                /\ rstack' = SetRTop(done)
                /\ IF NoFragment(ref)
                   THEN UNCHANGED <<_refs, _errors>>
                   ELSE LET st == StoreTarget(_refs, _errors, ref, _refs[BaseUrl(ref)])
                        IN  _refs' = st.refs /\ _errors' = st.errors
           ELSE IF StartsWith(ref, <<"#", "/">>)
           THEN LET target == RTop.doc
                    abs == RTop.url \o ref
                    st == StoreTarget(_refs, _errors, abs, target)
                IN  /\ rstack' = SetRTop([done EXCEPT !.doc =
                            SetAt(RTop.doc, n, SetMember(RNode, K_ref, JStr(abs)))])
                    /\ _refs' = st.refs
                    /\ _errors' = st.errors
           ELSE /\ rstack' = SetRTop(done)
                /\ _errors' = Append(_errors, <<"Unsupported ref: ">> \o ref)
                /\ UNCHANGED _refs
    /\ UNCHANGED <<pc, root_schema, fetch_json, fetched, copy, vstack, arg, ret, _rules,
                   _refs_being_resolved, _warnings, output>>

\* Lines 580-581: the base of an https:// $ref is not indexed: fetch the
\* document and resolve its refs in a nested resolve_refs call.
FetchCall ==
    /\ pc = "resolve_refs"
    /\ RTop.todo # <<>>
    /\ contains(RNode, K_ref)
    /\ LET ref == at(RNode, K_ref).s
       IN  /\ ref \notin DOMAIN _refs
           /\ StartsWith(ref, HTTPS)
           /\ BaseUrl(ref) \notin DOMAIN _refs
           /\ fetched' = Append(fetched, ref)
           /\ IF Len(rstack) < MaxStack
              THEN /\ rstack' = Append(SetRTop([RTop EXCEPT !.pending = ref]),
                                       RFrame(fetch_json, BaseUrl(ref)))
                   /\ pc' = pc
              ELSE /\ pc' = "stack_overflow"
                   /\ UNCHANGED rstack
    /\ UNCHANGED <<root_schema, fetch_json, copy, vstack, arg, ret, _rules, _refs,
                   _refs_being_resolved, _errors, _warnings, output>>

\* Lines 582-606: the nested resolve_refs returned; target was never set.
FetchReturn ==
    /\ pc = "resolve_refs"
    /\ Len(rstack) > 1
    /\ RTop.todo = <<>>
    /\ LET caller == rstack[Len(rstack) - 1]
           ref == caller.pending
           refs1 == Put(_refs, RTop.url, RTop.doc)
           st == IF NoFragment(ref) THEN [refs |-> refs1, errors |-> _errors]
                 ELSE StoreTarget(refs1, _errors, ref, JNull)
       IN  /\ rstack' = [SubSeq(rstack, 1, Len(rstack) - 1) EXCEPT ![Len(rstack) - 1] =
                            [caller EXCEPT !.todo = Tail(caller.todo), !.pending = <<>>]]
           /\ _refs' = st.refs
           /\ _errors' = st.errors
    /\ UNCHANGED <<pc, root_schema, fetch_json, fetched, copy, vstack, arg, ret, _rules,
                   _refs_being_resolved, _warnings, output>>

(***************************************************************************)
(* visit.  A frame of vstack is a visit call (with the _resolve_ref,       *)
(* _generate_union_rule or _build_object_rule call it made) that waits for *)
(* a nested visit to return.                                               *)
(***************************************************************************)
Frame(kind, name, rule_name) ==
    [kind |-> kind, name |-> name, rule_name |-> rule_name, ref |-> <<>>,
     list |-> <<>>, i |-> 1, acc |-> <<>>, required |-> {}, addl |-> JNull,
     kvs |-> <<>>, depth |-> 0, lo |-> 0, hi |-> 0]

Arg(schema, name) == [schema |-> schema, name |-> name]
NoArg == Arg(JNull, <<>>)

\* Line 625
RuleName(name) ==
    IF is_reserved_name(name) THEN name \o <<"-">>
    ELSE IF name = <<>> THEN N_root ELSE name

\* name + (name.empty() ? "" : "-") + suffix
Sub(name, suffix) == name \o (IF name = <<>> THEN <<>> ELSE <<"-">>) \o suffix

SchemaType(schema) == IF contains(schema, K_type) THEN at(schema, K_type) ELSE JNull
SchemaFormat(schema) == IF contains(schema, K_format) THEN at(schema, K_format).s ELSE <<>>

TypeIs(schema, word) == SchemaType(schema) = JStr(<<word>>)
TypeNullOr(schema, word) == SchemaType(schema).t = "null" \/ TypeIs(schema, word)

\* std::regex_match(schema_format, std::regex("^uuid[1-5]?$"))
IsUuidFormat(format) ==
    format = <<"uuid">> \/ format \in {<<"uuid", Digits[d + 1]>> : d \in 1..5}

\* The branch of visit's if-chain (lines 627-736) a schema takes.
Shape(schema) ==
    IF contains(schema, K_ref) THEN "ref"
    ELSE IF contains(schema, K_oneOf) \/ contains(schema, K_anyOf) THEN "union"
    ELSE IF SchemaType(schema).t = "arr" THEN "types"
    ELSE IF contains(schema, K_const) THEN "const"
    ELSE IF contains(schema, K_enum) THEN "enum"
    ELSE IF TypeNullOr(schema, "object")
            /\ (contains(schema, K_properties)
                \/ (contains(schema, K_additionalProperties)
                    /\ at(schema, K_additionalProperties) # JBool(TRUE)))
    THEN "object"
    ELSE IF TypeNullOr(schema, "object") /\ contains(schema, K_allOf) THEN "allOf"
    ELSE IF TypeNullOr(schema, "array")
            /\ (contains(schema, K_items) \/ contains(schema, K_prefixItems))
    THEN "array"
    ELSE IF TypeNullOr(schema, "string") /\ contains(schema, K_pattern) THEN "pattern"
    ELSE IF TypeNullOr(schema, "string") /\ IsUuidFormat(SchemaFormat(schema)) THEN "uuid"
    ELSE IF TypeNullOr(schema, "string")
            /\ (SchemaFormat(schema) \o <<"-", "string">>) \in DOMAIN STRING_FORMAT_RULES
    THEN "format"
    ELSE IF TypeIs(schema, "string")
            /\ (contains(schema, K_minLength) \/ contains(schema, K_maxLength))
    THEN "length"
    ELSE IF empty(schema) \/ TypeIs(schema, "object") THEN "object_primitive"
    ELSE "primitive"

\* _refs[ref] of a non-const map: a missing key is inserted with a null value.
RefsAt(refs, ref) == IF ref \in DOMAIN refs THEN refs[ref] ELSE JNull
RefsTouch(refs, ref) == IF ref \in DOMAIN refs THEN refs ELSE Put(refs, ref, JNull)

\* ref.substr(ref.find_last_of('/') + 1)
RefName(ref) == SubSeq(ref, find_last_of(ref, "/", Len(ref)) + 1, Len(ref))

\* An expansion whenever the name is free, whatever is in progress.
ExpandUnlessNamed(rules, being, ref) == RefName(ref) \notin DOMAIN rules

\* Line 431
MustExpand(rules, being, ref) == RefName(ref) \notin DOMAIN rules /\ ref \notin being

\* The machine after a visit call returned r: the caller on top of the
\* stack goes on.
Returned(r) == pc' = "return" /\ ret' = r /\ arg' = NoArg

\* The machine at a nested call visit(schema, name) made under frame f,
\* which replaces the top of stack below (or is pushed on it).
Called(below, f, schema, name) ==
    IF Len(below) < MaxStack
    THEN /\ vstack' = Append(below, f)
         /\ arg' = Arg(schema, name)
         /\ pc' = "visit"
         /\ ret' = <<>>
    ELSE /\ pc' = "stack_overflow"
         /\ UNCHANGED <<vstack, arg, ret>>

\* Lines 627-628 with _resolve_ref: a $ref.
VisitRef ==
    /\ pc = "visit"
    /\ Shape(arg.schema) = "ref"
    /\ LET ref == at(arg.schema, K_ref).s
           rule_name == RuleName(arg.name)
       IN  IF MustExpand(_rules, _refs_being_resolved, ref)
           THEN /\ _refs_being_resolved' = _refs_being_resolved \cup {ref}
                /\ _refs' = RefsTouch(_refs, ref)
                /\ Called(vstack, [Frame("ref", arg.name, rule_name) EXCEPT !.ref = ref],
                          RefsAt(_refs, ref), RefName(ref))
                /\ UNCHANGED _rules
           ELSE LET a == _add_rule(_rules, rule_name, RefName(ref))
                IN  /\ _rules' = a.rules
                    /\ Returned(a.ret)
                    /\ UNCHANGED <<vstack, _refs, _refs_being_resolved>>
    /\ UNCHANGED <<root_schema, fetch_json, fetched, copy, rstack, _errors, _warnings, output>>

VTop == vstack[Len(vstack)]
VBelow == SubSeq(vstack, 1, Len(vstack) - 1)

\* Lines 434-437 and 628: the visit of the resolved sub-schema returned.
ReturnRef ==
    /\ pc = "return"
    /\ vstack # <<>>
    /\ VTop.kind = "ref"
    /\ _refs_being_resolved' = _refs_being_resolved \ {VTop.ref}
    /\ LET a == _add_rule(_rules, VTop.rule_name, ret)
       IN  /\ _rules' = a.rules
           /\ Returned(a.ret)
    /\ vstack' = VBelow
    /\ UNCHANGED <<root_schema, fetch_json, fetched, copy, rstack, _refs, _errors, _warnings, output>>

\* name + (name.empty() ? "alternative-" : "-") + std::to_string(i), i from 0
AltName(name, i) ==
    name \o (IF name = <<>> THEN <<"alternative", "-">> ELSE <<"-">>) \o to_string(i)

OR_SEP == <<SP, "|", SP>>

\* Lines 629-637 with _generate_union_rule: oneOf, anyOf, or a type array.
VisitUnion ==
    /\ pc = "visit"
    /\ Shape(arg.schema) \in {"union", "types"}
    /\ LET alts == IF Shape(arg.schema) = "types"
                   THEN [i \in 1..Len(SchemaType(arg.schema).m) |->
                            KV(<<>>, JObj(<<KV(K_type, SchemaType(arg.schema).m[i].v)>>))]
                   ELSE IF contains(arg.schema, K_oneOf) THEN at(arg.schema, K_oneOf).m
                   ELSE at(arg.schema, K_anyOf).m
           rule_name == RuleName(arg.name)
       IN  IF alts = <<>>
           THEN LET a == _add_rule(_rules, rule_name, <<>>)
                IN  /\ _rules' = a.rules
                    /\ Returned(a.ret)
                    /\ UNCHANGED vstack
           ELSE /\ Called(vstack, [Frame("union", arg.name, rule_name) EXCEPT !.list = alts],
                          alts[1].v, AltName(arg.name, 0))
                /\ UNCHANGED _rules
    /\ UNCHANGED <<root_schema, fetch_json, fetched, copy, rstack, _refs, _refs_being_resolved, _errors,
                   _warnings, output>>

\* Lines 229-232: one alternative was visited.
ReturnUnion ==
    /\ pc = "return"
    /\ vstack # <<>>
    /\ VTop.kind = "union"
    /\ LET f == [VTop EXCEPT !.acc = Append(VTop.acc, ret), !.i = VTop.i + 1]
       IN  IF f.i <= Len(f.list)
           THEN /\ Called(VBelow, f, f.list[f.i].v, AltName(f.name, f.i - 1))
                /\ UNCHANGED _rules
           ELSE LET a == _add_rule(_rules, f.rule_name, join(f.acc, OR_SEP))
                IN  /\ _rules' = a.rules
                    /\ Returned(a.ret)
                    /\ vstack' = VBelow
    /\ UNCHANGED <<root_schema, fetch_json, fetched, copy, rstack, _refs, _refs_being_resolved, _errors,
                   _warnings, output>>

\* _generate_constant_rule
_generate_constant_rule(value) == format_literal(dump(value))

\* Lines 638-645: const and enum.
VisitConstant ==
    /\ pc = "visit"
    /\ Shape(arg.schema) \in {"const", "enum"}
    /\ LET rule == IF Shape(arg.schema) = "const"
                   THEN _generate_constant_rule(at(arg.schema, K_const))
                   ELSE LET vs == at(arg.schema, K_enum).m
                        IN  join([i \in 1..Len(vs) |-> _generate_constant_rule(vs[i].v)],
                                 OR_SEP)
           a == _add_rule(_rules, RuleName(arg.name), rule)
       IN  /\ _rules' = a.rules
           /\ Returned(a.ret)
    /\ UNCHANGED <<root_schema, fetch_json, fetched, copy, rstack, vstack, _refs, _refs_being_resolved,
                   _errors, _warnings, output>>

(***************************************************************************)
(* _build_object_rule.  An "object" frame holds the properties in list,    *)
(* the index i of the property whose visit is awaited (Len(list) + 1: the  *)
(* visit of additionalProperties), and prop_kv_rule_names in kvs.          *)
(***************************************************************************)
COMMA_SPACE == <<LQ, ",", LQ, SP, "space">>      \* "," space
STAR == <<"*">>

\* Line 464
AdditionalEnabled(additional_properties) ==
    additional_properties.t = "obj"
    \/ (additional_properties.t = "bool" /\ additional_properties.b)

\* prop_kv_rule_names[k] of a non-const map: "" when k is missing
KvAt(kvs, k) == IF k \in DOMAIN kvs THEN kvs[k] ELSE <<>>

\* The name a an _add_rule call returned, as the fragment built so far.
AsRes(a) == [rules |-> a.rules, res |-> a.ret]

\* Lines 491-502: the fragment for the first key of ks.
First(rules, k, kv_rule_name, first_is_optional, name) ==
    IF k = STAR
    THEN AsRes(_add_rule(rules, Sub(name, <<"additional", "-", "kvs">>),
                         kv_rule_name \o <<SP, "(", SP>> \o COMMA_SPACE \o <<SP>>
                         \o kv_rule_name \o <<SP, ")", "*">>))
    ELSE IF first_is_optional
    THEN [rules |-> rules,
          res |-> <<"(", SP>> \o COMMA_SPACE \o <<SP>> \o kv_rule_name \o <<SP, ")", "?">>]
    ELSE [rules |-> rules, res |-> kv_rule_name]

\* Line 504: res += " " + (the name a the -rest rule got).
Extend(res, a) == [rules |-> a.rules, res |-> res \o <<SP>> \o a.ret]

\* Lines 504-507, inner being the result of the nested get_recursive_refs.
Rest(res, inner, name, k) ==
    Extend(res, _add_rule(inner.rules, Sub(name, k \o <<"-", "rest">>), inner.res))

\* Lines 486-510: the fragment and the rule table after the call.
RECURSIVE get_recursive_refs(_, _, _, _, _)
WithRest(first, ks, name, kvs) ==
    IF Len(ks) > 1
    THEN Rest(first.res, get_recursive_refs(first.rules, Tail(ks), TRUE, name, kvs),
              name, ks[1])
    ELSE first

get_recursive_refs(rules, ks, first_is_optional, name, kvs) ==
    IF ks = <<>> THEN [rules |-> rules, res |-> <<>>]
    ELSE WithRest(First(rules, ks[1], KvAt(kvs, ks[1]), first_is_optional, name),
                  ks, name, kvs)

\* Lines 512-517: the alternatives, one per starting index.  st holds the
\* rule table and the text appended so far.
RECURSIVE OptionalAlternatives(_, _, _, _, _)
Alternative(res, i, g) ==
    [rules |-> g.rules, res |-> res \o (IF i > 1 THEN OR_SEP ELSE <<>>) \o g.res]

OptionalAlternatives(st, optional_props, i, name, kvs) ==
    IF i > Len(optional_props) THEN st
    ELSE OptionalAlternatives(
             Alternative(st.res, i,
                         get_recursive_refs(st.rules,
                                            SubSeq(optional_props, i, Len(optional_props)),
                                            FALSE, name, kvs)),
             optional_props, i + 1, name, kvs)

PropNames(f) == [i \in 1..Len(f.list) |-> f.list[i].k]

\* Lines 458-462 and 469
RequiredProps(f) == SelectSeq(PropNames(f), LAMBDA k : k \in f.required)
OptionalProps(f) ==
    SelectSeq(PropNames(f), LAMBDA k : k \notin f.required)
    \o (IF AdditionalEnabled(f.addl) THEN <<STAR>> ELSE <<>>)

\* Lines 472-478
ObjectHead(required_props, kvs) ==
    Lit(<<"{">>) \o <<SP, "space", SP>>
    \o join([i \in 1..Len(required_props) |-> KvAt(kvs, required_props[i])],
            <<SP>> \o COMMA_SPACE \o <<SP>>)

\* Lines 481-484
OptionalOpen(required_props) ==
    <<SP, "(">> \o (IF required_props # <<>> THEN <<SP>> \o COMMA_SPACE \o <<SP, "(", SP>>
                    ELSE <<>>)

\* Lines 518-524, st being what the loop over optional_props left.
ObjectClose(st, required_props) ==
    [rules |-> st.rules,
     rule |-> st.res \o (IF required_props # <<>> THEN <<SP, ")">> ELSE <<>>)
              \o <<SP, ")", "?", SP>> \o Lit(<<"}">>) \o <<SP, "space">>]

\* Lines 472-526: the rule of the object and the rule table, once every
\* property (and additionalProperties) has its kv rule.
ObjectRule(rules, required_props, optional_props, name, kvs) ==
    IF optional_props = <<>>
    THEN [rules |-> rules,
          rule |-> ObjectHead(required_props, kvs) \o <<SP>> \o Lit(<<"}">>) \o <<SP, "space">>]
    ELSE ObjectClose(
             OptionalAlternatives(
                 [rules |-> rules,
                  res |-> ObjectHead(required_props, kvs) \o OptionalOpen(required_props)],
                 optional_props, 1, name, kvs),
             required_props)

BuildObjectRule(rules, f) == ObjectRule(rules, RequiredProps(f), OptionalProps(f), f.name, f.kvs)

\* Lines 663 and 694: the rule b.rule installed as rule_name, and the return.
InstallObject(b, rule_name) == _add_rule(b.rules, rule_name, b.rule)

ReturnRule(a, below) ==
    /\ _rules' = a.rules
    /\ Returned(a.ret)
    /\ vstack' = below

\* _build_object_rule goes on under frame f with rule table rules: the next
\* property is visited, or additionalProperties, or the rule is built and
\* installed.
ObjectGo(below, f, rules) ==
    IF f.i <= Len(f.list)
    THEN /\ Called(below, f, f.list[f.i].v, Sub(f.name, f.list[f.i].k))
         /\ _rules' = rules
    ELSE IF f.i = Len(f.list) + 1 /\ AdditionalEnabled(f.addl)
    THEN /\ Called(below, f, IF f.addl.t = "obj" THEN f.addl ELSE JObj(<<>>),
                   Sub(f.name, <<"additional">>) \o <<"-", "value">>)
         /\ _rules' = rules
    ELSE ReturnRule(InstallObject(BuildObjectRule(rules, f), f.rule_name), below)

\* Lines 649-662
RequiredOf(schema) ==
    IF contains(schema, K_required) /\ at(schema, K_required).t = "arr"
    THEN LET r == at(schema, K_required).m
         IN  {r[i].v.s : i \in {j \in 1..Len(r) : r[j].v.t = "str"}}
    ELSE {}

\* Lines 646-666: an object with properties or restricted additionalProperties.
VisitObject ==
    /\ pc = "visit"
    /\ Shape(arg.schema) = "object"
    /\ ObjectGo(vstack,
                [Frame("object", arg.name, RuleName(arg.name)) EXCEPT
                    !.list = IF contains(arg.schema, K_properties)
                             THEN at(arg.schema, K_properties).m ELSE <<>>,
                    !.required = RequiredOf(arg.schema),
                    !.addl = IF contains(arg.schema, K_additionalProperties)
                             THEN at(arg.schema, K_additionalProperties) ELSE JNull],
                _rules)
    /\ UNCHANGED <<root_schema, fetch_json, fetched, copy, rstack, _refs, _refs_being_resolved, _errors,
                   _warnings, output>>

\* The frame f after its property or additionalProperties got the kv rule
\* a.ret, and the conversion going on from there.
KvDone(below, f, k, a) ==
    ObjectGo(below, [f EXCEPT !.i = f.i + 1, !.kvs = Put(f.kvs, k, a.ret)], a.rules)

\* Lines 453-457: the visit of a property's schema returned.
ReturnProperty ==
    /\ pc = "return"
    /\ vstack # <<>>
    /\ VTop.kind = "object"
    /\ VTop.i <= Len(VTop.list)
    /\ KvDone(VBelow, VTop, VTop.list[VTop.i].k,
              _add_rule(_rules, Sub(VTop.name, VTop.list[VTop.i].k) \o <<"-", "kv">>,
                        format_literal(dump(JStr(VTop.list[VTop.i].k)))
                        \o <<SP, "space", SP>> \o Lit(<<":">>) \o <<SP, "space", SP>> \o ret))
    /\ UNCHANGED <<root_schema, fetch_json, fetched, copy, rstack, _refs, _refs_being_resolved, _errors,
                   _warnings, output>>

\* Line 467, once the string primitive is in.
AdditionalKv(p, sub_name, value_rule) ==
    AddRuleAfter(p, sub_name \o <<"-", "kv">>,
                 p.ret \o <<SP>> \o Lit(<<":">>) \o <<SP, "space", SP>> \o value_rule)

AdditionalDone(below, f, a) ==
    /\ KvDone(below, f, STAR, a)
    /\ _errors' = a.errors

\* Lines 466-469: the visit of additionalProperties returned.
ReturnAdditional ==
    /\ pc = "return"
    /\ vstack # <<>>
    /\ VTop.kind = "object"
    /\ VTop.i = Len(VTop.list) + 1
    /\ AdditionalDone(VBelow, VTop,
                      AdditionalKv(_add_primitive(_rules, _errors, <<"string">>,
                                                  PRIMITIVE_RULES[<<"string">>]),
                                   Sub(VTop.name, <<"additional">>), ret))
    /\ UNCHANGED <<root_schema, fetch_json, fetched, copy, rstack, _refs, _refs_being_resolved,
                   _warnings, output>>

(***************************************************************************)
(* allOf.  An "allOf" frame holds in acc the components add_component has  *)
(* still to take, each keyed "required" or "optional", in list and         *)
(* required what it collected, and in depth how deep add_component has     *)
(* recursed into the first component.                                      *)
(***************************************************************************)
K_is_required == <<"required">>
K_not_required == <<"optional">>

RECURSIVE Components(_)
Components(ts) ==
    IF ts = <<>> THEN <<>>
    ELSE LET t == Head(ts).v
         IN  (IF contains(t, K_anyOf)
              THEN [i \in 1..Len(at(t, K_anyOf).m) |-> KV(K_not_required, at(t, K_anyOf).m[i].v)]
              ELSE <<KV(K_is_required, t)>>)
             \o Components(Tail(ts))

\* Lines 667-670 and 685: an allOf of object type.
VisitAllOf ==
    /\ pc = "visit"
    /\ Shape(arg.schema) = "allOf"
    /\ IF Len(vstack) < MaxStack
       THEN /\ vstack' = Append(vstack,
                            [Frame("allOf", arg.name, RuleName(arg.name)) EXCEPT
                                !.acc = Components(at(arg.schema, K_allOf).m)])
            /\ pc' = "add_component"
       ELSE /\ pc' = "stack_overflow"
            /\ UNCHANGED vstack
    /\ arg' = NoArg
    /\ UNCHANGED <<root_schema, fetch_json, fetched, copy, rstack, ret, _rules, _refs, _refs_being_resolved,
                   _errors, _warnings, output>>

\* Lines 671-684: one call of add_component, on the first component left.
AddComponent ==
    /\ pc = "add_component"
    /\ VTop.acc # <<>>
    /\ LET comp_schema == Head(VTop.acc).v
           is_required == Head(VTop.acc).k = K_is_required
       IN  IF contains(comp_schema, K_ref)
           THEN LET ref == at(comp_schema, K_ref).s
                IN  /\ _refs' = RefsTouch(_refs, ref)
                    /\ IF Len(vstack) + VTop.depth < MaxStack
                       THEN /\ vstack' = [vstack EXCEPT ![Len(vstack)] =
                                   [VTop EXCEPT !.depth = VTop.depth + 1,
                                                !.acc = <<KV(Head(VTop.acc).k, RefsAt(_refs, ref))>>
                                                        \o Tail(VTop.acc)]]
                            /\ pc' = pc
                       ELSE /\ pc' = "stack_overflow"
                            /\ UNCHANGED vstack
           ELSE /\ vstack' = [vstack EXCEPT ![Len(vstack)] =
                       [VTop EXCEPT
                           !.depth = 0,
                           !.acc = Tail(VTop.acc),
                           !.list = IF contains(comp_schema, K_properties)
                                    THEN VTop.list \o at(comp_schema, K_properties).m
                                    ELSE VTop.list,
                           !.required =
                               IF contains(comp_schema, K_properties) /\ is_required
                               THEN VTop.required
                                    \cup {at(comp_schema, K_properties).m[i].k :
                                            i \in 1..Len(at(comp_schema, K_properties).m)}
                               ELSE VTop.required]]
                /\ pc' = pc
                /\ UNCHANGED _refs
    /\ UNCHANGED <<root_schema, fetch_json, fetched, copy, rstack, arg, ret, _rules, _refs_being_resolved,
                   _errors, _warnings, output>>

\* Line 694: every component was taken; build the object rule.
AllOfBuild ==
    /\ pc = "add_component"
    /\ VTop.acc = <<>>
    /\ ObjectGo(VBelow, [VTop EXCEPT !.kind = "object"], _rules)
    /\ UNCHANGED <<root_schema, fetch_json, fetched, copy, rstack, _refs, _refs_being_resolved, _errors,
                   _warnings, output>>

(***************************************************************************)
(* Arrays (lines 695-714).                                                 *)
(***************************************************************************)
ArrayRule(inner) ==
    Lit(<<"[">>) \o <<SP, "space", SP>> \o inner \o <<SP>> \o Lit(<<"]">>) \o <<SP, "space">>

ItemsOf(schema) ==
    IF contains(schema, K_items) THEN at(schema, K_items) ELSE at(schema, K_prefixItems)

VisitArray ==
    /\ pc = "visit"
    /\ Shape(arg.schema) = "array"
    /\ LET items == ItemsOf(arg.schema)
           rule_name == RuleName(arg.name)
       IN  IF items.t = "arr"
           THEN IF items.m = <<>>
                THEN LET a == _add_rule(_rules, rule_name, ArrayRule(<<>>))
                     IN  /\ _rules' = a.rules
                         /\ Returned(a.ret)
                         /\ UNCHANGED vstack
                ELSE /\ Called(vstack,
                               [Frame("tuple", arg.name, rule_name) EXCEPT !.list = items.m],
                               items.m[1].v, Sub(arg.name, <<"tuple", "-">> \o to_string(0)))
                     /\ UNCHANGED _rules
           ELSE /\ Called(vstack,
                          [Frame("items", arg.name, rule_name) EXCEPT
                              !.lo = IF contains(arg.schema, K_minItems)
                                     THEN at(arg.schema, K_minItems).n ELSE 0,
                              !.hi = IF contains(arg.schema, K_maxItems)
                                        /\ at(arg.schema, K_maxItems).t = "int"
                                     THEN at(arg.schema, K_maxItems).n ELSE IntMax],
                          items, Sub(arg.name, <<"item">>))
                /\ UNCHANGED _rules
    /\ UNCHANGED <<root_schema, fetch_json, fetched, copy, rstack, _refs, _refs_being_resolved, _errors,
                   _warnings, output>>

\* Lines 699-706: one element of a tuple was visited.
ReturnTuple ==
    /\ pc = "return"
    /\ vstack # <<>>
    /\ VTop.kind = "tuple"
    /\ LET f == [VTop EXCEPT !.acc = Append(VTop.acc, ret), !.i = VTop.i + 1]
       IN  IF f.i <= Len(f.list)
           THEN /\ Called(VBelow, f, f.list[f.i].v,
                          Sub(f.name, <<"tuple", "-">> \o to_string(f.i - 1)))
                /\ UNCHANGED _rules
           ELSE LET a == _add_rule(_rules, f.rule_name,
                                   ArrayRule(join(f.acc, <<SP>> \o COMMA_SPACE \o <<SP>>)))
                IN  /\ _rules' = a.rules
                    /\ Returned(a.ret)
                    /\ vstack' = VBelow
    /\ UNCHANGED <<root_schema, fetch_json, fetched, copy, rstack, _refs, _refs_being_resolved, _errors,
                   _warnings, output>>

\* Lines 708-713: the schema of the items was visited.
ReturnItems ==
    /\ pc = "return"
    /\ vstack # <<>>
    /\ VTop.kind = "items"
    /\ LET a == _add_rule(_rules, VTop.rule_name,
                    ArrayRule(build_repetition(ret, VTop.lo, VTop.hi, COMMA_SPACE, FALSE)))
       IN  /\ _rules' = a.rules
           /\ Returned(a.ret)
    /\ vstack' = VBelow
    /\ UNCHANGED <<root_schema, fetch_json, fetched, copy, rstack, _refs, _refs_being_resolved, _errors,
                   _warnings, output>>

(***************************************************************************)
(* Strings with a format or a length, and the primitives (lines 717-736).  *)
(***************************************************************************)
StringRule(inner) ==
    Lit(<<EQ>>) \o <<SP>> \o inner \o <<SP>> \o Lit(<<EQ>>) \o <<SP, "space">>

\* The visit returns r.ret, with r.rules and r.errors for table and buffer.
Finish(r) ==
    /\ _rules' = r.rules
    /\ _errors' = r.errors
    /\ Returned(r.ret)

MinLength(schema) == IF contains(schema, K_minLength) THEN at(schema, K_minLength).n ELSE 0
MaxLength(schema) ==
    IF contains(schema, K_maxLength) THEN at(schema, K_maxLength).n ELSE IntMax

\* Line 724, once the char primitive is in.
LengthRule(p, schema, rule_name) ==
    AddRuleAfter(p, rule_name,
                 StringRule(build_repetition(p.ret, MinLength(schema), MaxLength(schema),
                                             <<>>, FALSE)))

\* Lines 719 and 728: the rule rule_name that is the name p returned.
Alias(p, rule_name) == AddRuleAfter(p, rule_name, p.ret)

\* Lines 717-726 for the schema shape.
StringResult(shape, schema, rule_name, schema_format) ==
    CASE shape = "uuid" ->
            _add_primitive(_rules, _errors,
                           IF rule_name = N_root THEN N_root ELSE schema_format,
                           PRIMITIVE_RULES[<<"uuid">>])
      [] shape = "format" ->
            Alias(_add_primitive(_rules, _errors, schema_format \o <<"-", "string">>,
                                 STRING_FORMAT_RULES[schema_format \o <<"-", "string">>]),
                  rule_name)
      [] shape = "length" ->
            LengthRule(_add_primitive(_rules, _errors, <<"char">>, PRIMITIVE_RULES[<<"char">>]),
                       schema, rule_name)

VisitString ==
    /\ pc = "visit"
    /\ Shape(arg.schema) \in {"uuid", "format", "length"}
    /\ Finish(StringResult(Shape(arg.schema), arg.schema, RuleName(arg.name),
                           SchemaFormat(arg.schema)))
    /\ UNCHANGED <<root_schema, fetch_json, fetched, copy, rstack, vstack, _refs, _refs_being_resolved,
                   _warnings, output>>

\* The empty schema sent to the value primitive.
VisitValuePrimitive ==
    /\ pc = "visit"
    /\ Shape(arg.schema) = "object_primitive"
    /\ Finish(Alias(_add_primitive(_rules, _errors, <<"value">>, PRIMITIVE_RULES[<<"value">>]),
                    RuleName(arg.name)))
    /\ UNCHANGED <<root_schema, fetch_json, fetched, copy, rstack, vstack, _refs, _refs_being_resolved,
                   _warnings, output>>

\* Lines 727-728: the empty schema, or an object without further detail.
VisitObjectPrimitive ==
    /\ pc = "visit"
    /\ Shape(arg.schema) = "object_primitive"
    /\ Finish(Alias(_add_primitive(_rules, _errors, <<"object">>, PRIMITIVE_RULES[<<"object">>]),
                    RuleName(arg.name)))
    /\ UNCHANGED <<root_schema, fetch_json, fetched, copy, rstack, vstack, _refs, _refs_being_resolved,
                   _warnings, output>>

\* Line 730
Recognized(schema) ==
    SchemaType(schema).t = "str" /\ SchemaType(schema).s \in DOMAIN PRIMITIVE_RULES

\* Line 735: a type of the primitive catalog.
VisitPrimitive ==
    /\ pc = "visit"
    /\ Shape(arg.schema) = "primitive"
    /\ Recognized(arg.schema)
    /\ Finish(_add_primitive(_rules, _errors,
                             IF RuleName(arg.name) = N_root THEN N_root
                             ELSE SchemaType(arg.schema).s,
                             PRIMITIVE_RULES[SchemaType(arg.schema).s]))
    /\ UNCHANGED <<root_schema, fetch_json, fetched, copy, rstack, vstack, _refs, _refs_being_resolved,
                   _warnings, output>>

\* Lines 730-733: nothing matched.
VisitUnrecognized ==
    /\ pc = "visit"
    /\ Shape(arg.schema) = "primitive"
    /\ ~Recognized(arg.schema)
    /\ _errors' = Append(_errors, <<"Unrecognized schema: ">> \o dump(arg.schema))
    /\ Returned(<<>>)
    /\ UNCHANGED <<root_schema, fetch_json, fetched, copy, rstack, vstack, _rules, _refs,
                   _refs_being_resolved, _warnings, output>>

(***************************************************************************)
(* _visit_pattern.  A pattern is a sequence of single characters.  The     *)
(* state of one call is c: the index i into sub_pattern (from 1), the rule *)
(* table, the two buffers, sub_rule_ids, and stop: why the call did not    *)
(* come back ("" when it did).                                             *)
(***************************************************************************)
BS == "\\"

\* /* dotall= */ false
_dotall == FALSE

NON_LITERAL_SET == {"|", ".", "(", ")", "[", "]", "{", "}", "*", "+", "?"}
ESCAPED_IN_REGEXPS_BUT_NOT_IN_LITERALS == {"[", "]", "(", ")", "|", "{", "}", "*", "+", "?"}

\* sub_pattern.substr(i, 2) at a backslash, next being the character after it
EscapePair(next) ==
    IF next = BS THEN <<EBS>> ELSE IF next = LQ THEN <<EQ>> ELSE <<BS \o next>>

\* get_dot's rule
DotRule ==
    IF _dotall THEN <<"[", "\\U00000000", "-", "\\U0010FFFF", "]">>
    ELSE <<"[", "^", "\\x0A", "\\x0D", "]">>

\* literal_or_rule
Item(s, is_literal) == [s |-> s, lit |-> is_literal]

to_rule(ls) == IF ls.lit THEN Lit(ls.s) ELSE ls.s

\* join_seq: consecutive literals are merged, the rest is joined by " ".
RECURSIVE MergeLiterals(_, _)
MergeLiterals(seq, literal) ==
    IF seq = <<>> THEN (IF literal = <<>> THEN <<>> ELSE <<Lit(literal)>>)
    ELSE IF Head(seq).lit THEN MergeLiterals(Tail(seq), literal \o Head(seq).s)
    ELSE (IF literal = <<>> THEN <<>> ELSE <<Lit(literal)>>)
         \o <<Head(seq).s>> \o MergeLiterals(Tail(seq), <<>>)

join_seq(seq) == Item(join(MergeLiterals(seq, <<>>), <<SP>>), FALSE)

PState(i, rules, errors, warnings) ==
    [i |-> i, rules |-> rules, errors |-> errors, warnings |-> warnings, ids |-> <<>>,
     stop |-> ""]

\* What transform returns, and the state it leaves.
Result(out, c) == [out |-> out, c |-> c]

Stopped(c, why) == Result(Item(<<>>, FALSE), [c EXCEPT !.stop = why])

Back(seq) == seq[Len(seq)]
SetBack(seq, item) == [seq EXCEPT ![Len(seq)] = item]

\* Lines 320-328: the index the scan of a class stops at, and its text.
RECURSIVE ClassScan(_, _, _)
ClassScan(p, j, text) ==
    IF j > Len(p) \/ p[j] = "]" THEN [j |-> j, text |-> text]
    ELSE IF p[j] = BS
    THEN ClassScan(p, j + 2,
                   text \o (IF j < Len(p) THEN EscapePair(p[j + 1]) ELSE <<BS>>))
    ELSE ClassScan(p, j + 1, text \o <<p[j]>>)

\* Lines 397-418: the index the scan of a literal stops at, and the literal.
RECURSIVE LiteralScan(_, _, _)
LiteralScan(p, i, literal) ==
    IF i > Len(p) THEN [i |-> i, literal |-> literal]
    ELSE IF p[i] = BS /\ i < Len(p)
    THEN LiteralScan(p, i + 2,
                     literal \o (IF p[i + 1] \in ESCAPED_IN_REGEXPS_BUT_NOT_IN_LITERALS
                                 THEN <<p[i + 1]>> ELSE EscapePair(p[i + 1])))
    ELSE IF p[i] = LQ THEN LiteralScan(p, i + 1, literal \o <<EQ>>)
    ELSE IF p[i] \notin NON_LITERAL_SET
            /\ (i = Len(p) \/ literal = <<>> \/ p[i + 1] = "."
                \/ p[i + 1] \notin NON_LITERAL_SET)
    THEN LiteralScan(p, i + 1, literal \o <<p[i]>>)
    ELSE [i |-> i, literal |-> literal]

\* std::stoi: blanks, a sign, then digits; what follows them is ignored.
DigitValue(d) == CHOOSE k \in 0..9 : Digits[k + 1] = d

RECURSIVE StoiDigits(_, _, _)
StoiDigits(s, k, acc) ==
    IF k > Len(s) \/ s[k] \notin DigitSyms \/ acc > IntMax THEN acc
    ELSE StoiDigits(s, k + 1, acc * 10 + DigitValue(s[k]))

RECURSIVE StoiStart(_, _)
StoiStart(s, k) == IF k <= Len(s) /\ s[k] = SP THEN StoiStart(s, k + 1) ELSE k

StoiAt(s, k, sign) ==
    IF k > Len(s) \/ s[k] \notin DigitSyms THEN [kind |-> "invalid_argument", n |-> 0]
    ELSE IF StoiDigits(s, k, 0) > IntMax THEN [kind |-> "out_of_range", n |-> 0]
    ELSE [kind |-> "ok", n |-> sign * StoiDigits(s, k, 0)]

StoiSigned(s, k) ==
    IF k <= Len(s) /\ s[k] = "-" THEN StoiAt(s, k + 1, -1)
    ELSE IF k <= Len(s) /\ s[k] = "+" THEN StoiAt(s, k + 1, 1)
    ELSE StoiAt(s, k, 1)

stoi(s) == StoiSigned(s, StoiStart(s, 1))

\* Lines 354-372: min_times and max_times of the values between the curly
\* brackets, or the exception std::stoi threw.
OrDefault(num, default) == IF num = <<>> THEN [kind |-> "ok", n |-> default] ELSE stoi(num)

Worst(a, b) == IF a.kind # "ok" THEN a.kind ELSE b.kind

Times(kind, lo, hi, wrong) == [kind |-> kind, min |-> lo, max |-> hi, wrong |-> wrong]

Two(a, b) ==
    IF Worst(a, b) # "ok" THEN Times(Worst(a, b), 0, IntMax, FALSE)
    ELSE Times("ok", a.n, b.n, FALSE)

CurlyTimes(nums) ==
    IF Len(nums) = 1 THEN Two(stoi(nums[1]), stoi(nums[1]))
    ELSE IF Len(nums) # 2 THEN Times("ok", 0, IntMax, TRUE)
    ELSE Two(OrDefault(nums[1], 0), OrDefault(nums[2], IntMax))

\* Lines 344-352: the index of the closing curly bracket, past the end of
\* the pattern if there is none, and the state once the scan is over.
CurlyClose(p, i) == IF find(p, "}", i + 1) = 0 THEN Len(p) + 1 ELSE find(p, "}", i + 1)

AfterCurlyScan(p, c, close) ==
    [c EXCEPT !.i = close + 1,
              !.errors = IF close > Len(p) THEN Append(@, <<"Unbalanced curly brackets">>)
                         ELSE @]

RECURSIVE transform_loop(_, _, _, _, _)

\* Lines 384-391: the last item of seq becomes its repetition.  A negative
\* count reaches repeat as a huge size_t, and reserve throws.
Repeated(p, name, start, seq, c, times, sub, is_literal) ==
    IF times.max # IntMax /\ times.max < times.min THEN Stopped(c, "raised")
    ELSE transform_loop(p, name, start,
                        SetBack(seq, Item(build_repetition(sub, times.min, times.max, <<>>,
                                                           is_literal), FALSE)),
                        c)

\* Lines 380-382, a being what _add_rule gave back.
SubRule(p, name, start, seq, c, times, a) ==
    Repeated(p, name, start, seq,
             [c EXCEPT !.rules = a.rules, !.ids = Put(c.ids, Back(seq).s, a.ret)],
             times, a.ret, FALSE)

\* Lines 373-383; seq.back() of an empty seq is undefined.
Repetition(p, name, start, seq, c, times) ==
    IF seq = <<>> THEN Stopped(c, "undefined")
    ELSE IF Back(seq).lit
    THEN Repeated(p, name, start, seq, c, times, Lit(Back(seq).s), TRUE)
    ELSE IF Back(seq).s \in DOMAIN c.ids
    THEN Repeated(p, name, start, seq, c, times, c.ids[Back(seq).s], FALSE)
    ELSE SubRule(p, name, start, seq, c, times,
                 _add_rule(c.rules,
                           name \o <<"-">> \o to_string(Cardinality(DOMAIN c.ids) + 1),
                           Back(seq).s))

\* Lines 353-372, c being the state after the scan for the closing bracket.
Curly(p, name, start, seq, c, times) ==
    IF times.kind = "invalid_argument"
    THEN Result(Item(<<>>, FALSE),
                [c EXCEPT !.errors = Append(@, <<"Invalid number in curly brackets">>)])
    ELSE IF times.kind = "out_of_range" THEN Stopped(c, "raised")
    ELSE Repetition(p, name, start, seq,
                    [c EXCEPT !.errors =
                        IF times.wrong
                        THEN Append(@, <<"Wrong number of values in curly brackets">>)
                        ELSE @],
                    times)

\* Lines 300-302, a being what get_dot's _add_rule gave back.
AfterDot(p, name, start, seq, c, a) ==
    transform_loop(p, name, start, Append(seq, Item(a.ret, FALSE)),
                   [c EXCEPT !.i = c.i + 1, !.rules = a.rules])

\* Lines 304-309: past the opening parenthesis.
OpenGroup(p, c) ==
    [c EXCEPT !.i = c.i + 1,
              !.warnings = IF c.i + 1 <= Len(p) /\ p[c.i + 1] = "?"
                           THEN Append(@, <<"Unsupported pattern syntax">>) ELSE @]

\* Line 310, r being what the nested transform returned.
AfterGroup(p, name, start, seq, r) ==
    IF r.c.stop # "" THEN r
    ELSE transform_loop(p, name, start,
                        Append(seq, Item(<<"(">> \o to_rule(r.out) \o <<")">>, FALSE)), r.c)

\* Lines 312-315: past the closing parenthesis; start counts from 1 here.
CloseGroup(p, start, c) ==
    [c EXCEPT !.i = c.i + 1,
              !.errors = IF start > 1 /\ p[start - 1] # "("
                         THEN Append(@, <<"Unbalanced parentheses">>) ELSE @]

\* Lines 329-334, k being where the scan of the class stopped.
AfterClass(p, name, start, seq, c, k) ==
    transform_loop(p, name, start, Append(seq, Item(<<"[">> \o k.text \o <<"]">>, FALSE)),
                   [c EXCEPT !.i = k.j + 1,
                             !.errors = IF k.j > Len(p)
                                        THEN Append(@, <<"Unbalanced square brackets">>)
                                        ELSE @])

\* Lines 419-421, k being where the scan of the literal stopped.  An empty
\* literal leaves i where it was, and the while loop of line 298 never ends.
AfterLiteral(p, name, start, seq, c, k) ==
    IF k.literal = <<>> THEN Stopped(c, "diverged")
    ELSE transform_loop(p, name, start, Append(seq, Item(k.literal, TRUE)),
                        [c EXCEPT !.i = k.i])

\* transform from the state c on, seq being what the call collected so far
\* and start the index it was entered at.
transform_loop(p, name, start, seq, c) ==
    IF c.stop # "" THEN Result(Item(<<>>, FALSE), c)
    ELSE IF c.i > Len(p) THEN Result(join_seq(seq), c)
    ELSE IF p[c.i] = "."
    THEN AfterDot(p, name, start, seq, c, _add_rule(c.rules, <<"dot">>, DotRule))
    ELSE IF p[c.i] = "("
    THEN AfterGroup(p, name, start, seq,
                    transform_loop(p, name, c.i + 1, <<>>, OpenGroup(p, c)))
    ELSE IF p[c.i] = ")" THEN Result(join_seq(seq), CloseGroup(p, start, c))
    ELSE IF p[c.i] = "["
    THEN AfterClass(p, name, start, seq, c, ClassScan(p, c.i + 1, <<>>))
    ELSE IF p[c.i] = "|"
    THEN transform_loop(p, name, start, Append(seq, Item(<<"|">>, FALSE)),
                        [c EXCEPT !.i = c.i + 1])
    ELSE IF p[c.i] \in {"*", "+", "?"}
    THEN IF seq = <<>> THEN Stopped(c, "undefined")
         ELSE transform_loop(p, name, start,
                             SetBack(seq, Item(to_rule(Back(seq)) \o <<p[c.i]>>, FALSE)),
                             [c EXCEPT !.i = c.i + 1])
    ELSE IF p[c.i] = "{"
    THEN Curly(p, name, start, seq, AfterCurlyScan(p, c, CurlyClose(p, c.i)),
               CurlyTimes(split(SubSeq(p, c.i + 1, CurlyClose(p, c.i) - 1), ",")))
    ELSE AfterLiteral(p, name, start, seq, c, LiteralScan(p, c.i, <<>>))

transform(p, name, c) == transform_loop(p, name, 1, <<>>, c)

\* What _visit_pattern gives back: the rule table and the buffers, the name
\* returned, and stop.
PatternResult(c, rule_name) ==
    [rules |-> c.rules, errors |-> c.errors, warnings |-> c.warnings, ret |-> rule_name,
     stop |-> c.stop]

\* Line 426, r being what transform returned and a what _add_rule gave back.
PatternRule(r, a) ==
    IF r.c.stop # "" THEN PatternResult(r.c, <<>>)
    ELSE PatternResult([r.c EXCEPT !.rules = a.rules], a.ret)

PatternBody(r) == StringRule(to_rule(r.out))

Transformed(name, r) == PatternRule(r, _add_rule(r.c.rules, name, PatternBody(r)))

\* pattern.front() of an empty pattern is undefined.
_visit_pattern(rules, errors, warnings, pattern, name) ==
    IF pattern = <<>>
    THEN PatternResult([PState(1, rules, errors, warnings) EXCEPT !.stop = "undefined"], <<>>)
    ELSE IF ~(Head(pattern) = "^" /\ pattern[Len(pattern)] = "$")
    THEN PatternResult(
             PState(1, rules,
                    Append(errors, <<"Pattern must start with '^' and end with '$'">>),
                    warnings),
             <<>>)
    ELSE Transformed(name, transform(SubSeq(pattern, 2, Len(pattern) - 1), name,
                                     PState(1, rules, errors, warnings)))

\* The machine after _visit_pattern: it returned, or it did not come back
\* (undefined behaviour, an endless loop, an exception of the library).
PatternDone(r) ==
    /\ _rules' = r.rules
    /\ _errors' = r.errors
    /\ _warnings' = r.warnings
    /\ IF r.stop = "" THEN Returned(r.ret)
       ELSE pc' = r.stop /\ UNCHANGED <<arg, ret>>

\* Lines 715-716: a string with a pattern.
VisitPattern ==
    /\ pc = "visit"
    /\ Shape(arg.schema) = "pattern"
    /\ PatternDone(_visit_pattern(_rules, _errors, _warnings, at(arg.schema, K_pattern).s,
                                  RuleName(arg.name)))
    /\ UNCHANGED <<root_schema, fetch_json, fetched, copy, rstack, vstack, _refs,
                   _refs_being_resolved, output>>

(***************************************************************************)
(* json_schema_to_grammar (lines 757-764), check_errors, format_grammar.    *)
(***************************************************************************)
Rank(sym) == CHOOSE i \in 1..Len(NameSymOrder) : NameSymOrder[i] = sym

\* std::less<std::string> on two keys of _rules
RECURSIVE KeyLess(_, _)
KeyLess(a, b) ==
    IF b = <<>> THEN FALSE
    ELSE IF a = <<>> THEN TRUE
    ELSE IF Head(a) = Head(b) THEN KeyLess(Tail(a), Tail(b))
    ELSE Rank(Head(a)) < Rank(Head(b))

\* The keys from the greatest down.
RECURSIVE KeysDescending(_)
KeysDescending(keys) ==
    IF keys = {} THEN <<>>
    ELSE LET greatest == CHOOSE k \in keys : \A o \in keys \ {k} : KeyLess(o, k)
         IN  <<greatest>> \o KeysDescending(keys \ {greatest})

\* The keys in the order std::map iterates them.
RECURSIVE SortedKeys(_)
SortedKeys(keys) ==
    IF keys = {} THEN <<>>
    ELSE LET least == CHOOSE k \in keys : \A o \in keys \ {k} : KeyLess(k, o)
         IN  <<least>> \o SortedKeys(keys \ {least})

RECURSIVE GrammarLines(_, _)
GrammarLines(rules, keys) ==
    IF keys = <<>> THEN <<>>
    ELSE Head(keys) \o <<" ::= ">> \o rules[Head(keys)] \o <<NL>>
         \o GrammarLines(rules, Tail(keys))

format_grammar(rules) == GrammarLines(rules, SortedKeys(DOMAIN rules))

NoOutput == [kind |-> "none", text |-> <<>>, stderr |-> <<>>]

\* Lines 760-761: the outermost resolve_refs returned; visit(copy, "").
ResolveDone ==
    /\ pc = "resolve_refs"
    /\ Len(rstack) = 1
    /\ RTop.todo = <<>>
    /\ copy' = RTop.doc
    /\ rstack' = <<>>
    /\ pc' = "visit"
    /\ arg' = Arg(RTop.doc, <<>>)
    /\ UNCHANGED <<root_schema, fetch_json, fetched, vstack, ret, _rules, _refs, _refs_being_resolved,
                   _errors, _warnings, output>>

\* Line 762: the outermost visit returned.
VisitDone ==
    /\ pc = "return"
    /\ vstack = <<>>
    /\ pc' = "check_errors"
    /\ UNCHANGED <<root_schema, fetch_json, fetched, copy, rstack, vstack, arg, ret, _rules, _refs,
                   _refs_being_resolved, _errors, _warnings, output>>

\* check_errors throws.
CheckErrorsThrow ==
    /\ pc = "check_errors"
    /\ _errors # <<>>
    /\ output' = [kind |-> "exception",
                  text |-> <<"JSON schema conversion failed:", NL>> \o join(_errors, <<NL>>),
                  stderr |-> <<>>]
    /\ pc' = "failed"
    /\ UNCHANGED <<root_schema, fetch_json, fetched, copy, rstack, vstack, arg, ret, _rules, _refs,
                   _refs_being_resolved, _errors, _warnings>>

\* format_grammar reached whatever check_errors found.
CheckErrorsSkipped ==
    /\ pc = "check_errors"
    /\ output' = [kind |-> "grammar", text |-> format_grammar(_rules), stderr |-> <<>>]
    /\ pc' = "done"
    /\ UNCHANGED <<root_schema, fetch_json, fetched, copy, rstack, vstack, arg, ret, _rules, _refs,
                   _refs_being_resolved, _errors, _warnings>>

\* check_errors returns, then format_grammar (lines 762-763).
CheckErrorsPass ==
    /\ pc = "check_errors"
    /\ _errors = <<>>
    /\ output' = [kind |-> "grammar",
                  text |-> format_grammar(_rules),
                  stderr |-> IF _warnings = <<>> THEN <<>>
                             ELSE <<"WARNING: JSON schema conversion was incomplete: ">>
                                  \o join(_warnings, <<";", SP>>) \o <<NL>>]
    /\ pc' = "done"
    /\ UNCHANGED <<root_schema, fetch_json, fetched, copy, rstack, vstack, arg, ret, _rules, _refs,
                   _refs_being_resolved, _errors, _warnings>>

(***************************************************************************)
(* The schemas and the fetchers the conversion is run on.                  *)
(***************************************************************************)
Type(word) == JObj(<<KV(K_type, JStr(<<word>>))>>)
Ref(uri) == JObj(<<KV(K_ref, JStr(uri))>>)
Local(path) == <<"#">> \o path                       \* "#/..."
DefsRef(word) == Local(<<"/", "$", "defs", "/", word>>)   \* "#/$defs/<word>"
Remote(fragment) == HTTPS \o <<"x">> \o fragment       \* "https://x..."
INPUT == <<"input">>

S_boolean == Type("boolean")
S_string == Type("string")
S_empty == JObj(<<>>)
S_enum == JObj(<<KV(K_enum, JArr(<<JStr(<<"a">>), JInt(1), JNull>>))>>)
S_array ==
    JObj(<<KV(K_type, JStr(<<"array">>)), KV(K_items, Type("integer")),
           KV(K_minItems, JInt(1)), KV(K_maxItems, JInt(3))>>)
S_object ==
    JObj(<<KV(K_type, JStr(<<"object">>)),
           KV(K_properties, JObj(<<KV(<<"a">>, Type("string")), KV(<<"b">>, Type("number"))>>)),
           KV(K_required, JArr(<<JStr(<<"a">>)>>))>>)
S_ref ==
    JObj(<<KV(K_ref, JStr(DefsRef("X"))),
           KV(K_defs, JObj(<<KV(<<"X">>, Type("integer"))>>))>>)
\* root {$ref: "#/$defs/A"}, $defs.A an object whose property next is A again
S_cyclic ==
    JObj(<<KV(K_ref, JStr(DefsRef("A"))),
           KV(K_defs, JObj(<<KV(<<"A">>,
               JObj(<<KV(K_properties, JObj(<<KV(<<"next">>, Ref(DefsRef("A")))>>))>>))>>))>>)

S_anyOf == JObj(<<KV(K_anyOf, JArr(<<Type("string"), Type("null")>>))>>)
S_types == JObj(<<KV(K_type, JArr(<<JStr(<<"string">>), JStr(<<"null">>)>>))>>)
S_const == JObj(<<KV(K_const, JStr(<<"a">>))>>)
S_tuple == JObj(<<KV(K_prefixItems, JArr(<<Type("string"), Type("number")>>))>>)
S_uuid == JObj(<<KV(K_type, JStr(<<"string">>)), KV(K_format, JStr(<<"uuid">>))>>)
S_date_time == JObj(<<KV(K_format, JStr(<<"date", "-", "time">>))>>)
S_length ==
    JObj(<<KV(K_type, JStr(<<"string">>)), KV(K_minLength, JInt(1)), KV(K_maxLength, JInt(2))>>)
S_unrecognized == Type("foo")
\* two problems: an unrecognized type and a $ref that is neither local nor https
S_two_errors ==
    JObj(<<KV(K_properties, JObj(<<KV(<<"a">>, Type("foo")), KV(<<"b">>, Ref(<<"foo">>))>>))>>)
S_missing == Ref(DefsRef("X"))
S_remote == Ref(Remote(<<"#", "/", "a">>))
\* two $refs that share a base URI and differ in fragment
S_remote_two ==
    JObj(<<KV(K_properties, JObj(<<KV(<<"a">>, Ref(Remote(<<"#", "/", "a">>))),
                                   KV(<<"b">>, Ref(Remote(<<"#", "/", "b">>)))>>))>>)
S_allOf ==
    JObj(<<KV(K_allOf, JArr(<<JObj(<<KV(K_properties, JObj(<<KV(<<"a">>, Type("string"))>>))>>),
                              Ref(DefsRef("X"))>>)),
           KV(K_defs, JObj(<<KV(<<"X">>,
               JObj(<<KV(K_properties, JObj(<<KV(<<"b">>, Type("number"))>>))>>))>>))>>)
\* $defs.A is {$ref: "#/$defs/A"}, and allOf has the member {$ref: "#/$defs/A"}
S_allOf_cycle ==
    JObj(<<KV(K_defs, JObj(<<KV(<<"A">>, Ref(DefsRef("A")))>>)),
           KV(K_allOf, JArr(<<Ref(DefsRef("A"))>>))>>)
\* $defs.A an object whose property next is A again, and a property a that is A
S_defs_cyclic ==
    JObj(<<KV(K_defs, JObj(<<KV(<<"A">>,
               JObj(<<KV(K_properties, JObj(<<KV(<<"next">>, Ref(DefsRef("A")))>>))>>))>>)),
           KV(K_properties, JObj(<<KV(<<"a">>, Ref(DefsRef("A")))>>))>>)
\* the same with the property a before $defs, so that $defs.A is traversed
\* after the $ref that points to it
S_defs_last ==
    JObj(<<KV(K_properties, JObj(<<KV(<<"a">>, Ref(DefsRef("A")))>>)),
           KV(K_defs, JObj(<<KV(<<"A">>,
               JObj(<<KV(K_properties, JObj(<<KV(<<"next">>, Ref(DefsRef("A")))>>))>>))>>))>>)
\* a property called X that is not $defs.X, visited before a $ref to $defs.X
S_ref_shadowed ==
    JObj(<<KV(K_properties, JObj(<<KV(<<"X">>, JObj(<<KV(K_const, JStr(<<"a">>))>>)),
                                   KV(<<"b">>, Ref(DefsRef("X")))>>)),
           KV(K_defs, JObj(<<KV(<<"X">>, Type("integer"))>>))>>)
\* two $refs to $defs.X, then a $ref to $defs.Z.X, another schema
S_ref_same_name ==
    JObj(<<KV(K_properties,
              JObj(<<KV(<<"a">>, Ref(DefsRef("X"))),
                     KV(<<"b">>, Ref(DefsRef("X"))),
                     KV(<<"c">>, Ref(Local(<<"/", "$", "defs", "/", "Z", "/", "X">>)))>>)),
           KV(K_defs, JObj(<<KV(<<"X">>, JObj(<<KV(K_const, JStr(<<"a">>))>>)),
                             KV(<<"Z">>, JObj(<<KV(<<"X">>,
                                                   JObj(<<KV(K_const, JStr(<<"b">>))>>))>>))>>))>>)
\* the same with the definition called "object"
S_object_cyclic ==
    JObj(<<KV(K_defs, JObj(<<KV(<<"object">>,
               JObj(<<KV(K_properties, JObj(<<KV(<<"next">>, Ref(DefsRef("object")))>>))>>))>>)),
           KV(K_properties, JObj(<<KV(<<"a">>, Ref(DefsRef("object")))>>))>>)
\* a property whose name is the empty string
S_empty_property == JObj(<<KV(K_properties, JObj(<<KV(<<>>, Type("string"))>>))>>)
\* unions and enumerations without a member
S_enum_empty == JObj(<<KV(K_enum, JArr(<<>>))>>)
S_anyOf_empty == JObj(<<KV(K_anyOf, JArr(<<>>))>>)
S_oneOf_empty == JObj(<<KV(K_oneOf, JArr(<<>>))>>)
S_types_empty == JObj(<<KV(K_type, JArr(<<>>))>>)
\* property names that are catalog names once sanitized, each ahead of a
\* property whose built-in rule depends on that catalog name
S_integral_part ==
    JObj(<<KV(K_properties, JObj(<<KV(<<"integral", "_", "part">>, JObj(<<KV(K_const, JStr(<<"a">>))>>)),
                                   KV(<<"b">>, Type("number"))>>))>>)
S_date_time_name ==
    JObj(<<KV(K_properties, JObj(<<KV(<<"date", SP, "time">>, JObj(<<KV(K_const, JStr(<<"a">>))>>)),
                                   KV(<<"b">>, JObj(<<KV(K_format, JStr(N_date_time))>>))>>))>>)
\* strings with a pattern: ^[A-Z][0-9]{2,4}$, ^(ab|c.)*$, ^(a$ and the
\* unanchored a
Pattern(pattern) == JObj(<<KV(K_type, JStr(<<"string">>)), KV(K_pattern, JStr(pattern))>>)
S_pattern ==
    Pattern(<<"^", "[", "A", "-", "Z", "]", "[", "0", "-", "9", "]", "{", "2", ",", "4", "}",
              "$">>)
S_pattern_group == Pattern(<<"^", "(", "a", "b", "|", "c", ".", ")", "*", "$">>)
S_pattern_open == Pattern(<<"^", "(", "a", "$">>)
S_pattern_unanchored == Pattern(<<"a">>)

\* Object schemas: required names, optional names, additional properties.
ObjectSchema(required, optional, additional) ==
    LET names == required \o optional
    IN  JObj(<<KV(K_properties, JObj([i \in 1..Len(names) |-> KV(names[i], Type("boolean"))])),
               KV(K_required, JArr([i \in 1..Len(required) |-> JStr(required[i])]))>>
             \o (IF additional = JNull THEN <<>> ELSE <<KV(K_additionalProperties, additional)>>))

PropertyLists == {<<>>, <<<<"a">>>>, <<<<"a">>, <<"b">>>>}
OptionalLists == {<<>>, <<<<"x">>>>, <<<<"x">>, <<"y">>>>}
Additionals == {JNull, JBool(FALSE), JBool(TRUE), Type("integer")}

ObjectSchemas ==
    {ObjectSchema(r, o, a) : r \in PropertyLists, o \in OptionalLists, a \in Additionals}

Schemas ==
    {S_boolean, S_string, S_empty, S_enum, S_array, S_object, S_ref, S_cyclic, S_anyOf,
     S_types, S_const, S_tuple, S_uuid, S_date_time, S_length, S_unrecognized, S_two_errors,
     S_missing, S_remote, S_remote_two, S_allOf, S_allOf_cycle, S_defs_cyclic, S_defs_last,
     S_ref_shadowed, S_ref_same_name, S_object_cyclic,
     S_empty_property, S_enum_empty, S_anyOf_empty, S_oneOf_empty, S_types_empty,
     S_integral_part, S_date_time_name,
     S_pattern, S_pattern_group, S_pattern_open, S_pattern_unanchored}
    \cup ObjectSchemas

\* What fetch_json returns: nothing of use (the default), a document with
\* two definitions, a document whose member a refers to its member b by the
\* document's own URL.
F_noop == JObj(<<>>)
F_doc == JObj(<<KV(<<"a">>, Type("boolean")), KV(<<"b">>, Type("number"))>>)
F_self == JObj(<<KV(<<"a">>, Ref(Remote(<<"#", "/", "b">>))), KV(<<"b">>, Type("number"))>>)

Fetchers == {F_noop, F_doc, F_self}

Init ==
    /\ pc = "resolve_refs"
    /\ fetch_json \in Fetchers
    /\ fetched = <<>>
    /\ root_schema \in Schemas
    /\ copy = root_schema
    /\ rstack = <<RFrame(copy, INPUT)>>
    /\ vstack = <<>>
    /\ arg = NoArg
    /\ ret = <<>>
    /\ _rules = (N_space :> SPACE_RULE)
    /\ _refs = <<>>
    /\ _refs_being_resolved = {}
    /\ _errors = <<>>
    /\ _warnings = <<>>
    /\ output = NoOutput

Next ==
    \/ VisitRefsDescend
    \/ VisitRefsScalar
    \/ VisitRefsRef
    \/ FetchCall
    \/ FetchReturn
    \/ ResolveDone
    \/ VisitRef
    \/ ReturnRef
    \/ VisitUnion
    \/ ReturnUnion
    \/ VisitConstant
    \/ VisitObject
    \/ ReturnProperty
    \/ ReturnAdditional
    \/ VisitAllOf
    \/ AddComponent
    \/ AllOfBuild
    \/ VisitArray
    \/ ReturnTuple
    \/ ReturnItems
    \/ VisitString
    \/ VisitPattern
    \/ VisitObjectPrimitive
    \/ VisitPrimitive
    \/ VisitUnrecognized
    \/ VisitDone
    \/ CheckErrorsThrow
    \/ CheckErrorsPass

Spec == Init /\ [][Next]_vars

(***************************************************************************)
(* _add_rule on its own: any sequence of calls on a converter as           *)
(* constructed, with names and right-hand sides from small sets.           *)
(***************************************************************************)
RuleNames ==
    {<<"a">>, <<"a", "0">>, <<"a", "_", "b">>, <<"a", SP, SP, "b">>, <<"a", "-", "b">>, N_root}
RuleBodies == {<<"string">>, <<"number">>, Lit(<<"a">>)}

InitAddRule ==
    /\ pc = "_add_rule"
    /\ fetch_json = F_noop
    /\ fetched = <<>>
    /\ root_schema = S_empty
    /\ copy = S_empty
    /\ rstack = <<>>
    /\ vstack = <<>>
    /\ arg = NoArg
    /\ ret = <<>>
    /\ _rules = (N_space :> SPACE_RULE)
    /\ _refs = <<>>
    /\ _refs_being_resolved = {}
    /\ _errors = <<>>
    /\ _warnings = <<>>
    /\ output = NoOutput

\* The call returned a.ret and left the table a.rules.
AddRuleReturns(a) ==
    /\ _rules' = a.rules
    /\ ret' = a.ret

AddRule(name, rule) ==
    /\ pc = "_add_rule"
    /\ Cardinality(DOMAIN _rules) < MaxRules
    /\ AddRuleReturns(_add_rule(_rules, name, rule))
    /\ UNCHANGED <<pc, root_schema, fetch_json, fetched, copy, rstack, vstack, arg, _refs,
                   _refs_being_resolved, _errors, _warnings, output>>

NextAddRule == \E name \in RuleNames, rule \in RuleBodies : AddRule(name, rule)

SpecAddRule == InitAddRule /\ [][NextAddRule]_vars

(***************************************************************************)
(* _visit_pattern on its own: the conversion of a string schema with the   *)
(* pattern ^P$, for every P of at most MaxPattern characters.              *)
(***************************************************************************)
PatternChars == {"a", "1", "(", ")", "[", "]", "{", "}"}

Patterns == UNION {[1..n -> PatternChars] : n \in 0..MaxPattern}

PatternSchemas == {Pattern(<<"^">> \o P \o <<"$">>) : P \in Patterns}

InitPattern ==
    /\ pc = "resolve_refs"
    /\ fetch_json = F_noop
    /\ fetched = <<>>
    /\ root_schema \in PatternSchemas
    /\ copy = root_schema
    /\ rstack = <<RFrame(copy, INPUT)>>
    /\ vstack = <<>>
    /\ arg = NoArg
    /\ ret = <<>>
    /\ _rules = (N_space :> SPACE_RULE)
    /\ _refs = <<>>
    /\ _refs_being_resolved = {}
    /\ _errors = <<>>
    /\ _warnings = <<>>
    /\ output = NoOutput

NextPattern ==
    \/ VisitRefsDescend
    \/ VisitRefsScalar
    \/ ResolveDone
    \/ VisitPattern
    \/ VisitDone
    \/ CheckErrorsThrow
    \/ CheckErrorsPass

SpecPattern == InitPattern /\ [][NextPattern]_vars

(***************************************************************************)
(* build_repetition on its own: one call, its arguments in the frame of    *)
(* its caller (name the item rule, acc the separator rule, lo and hi the   *)
(* counts, addl whether the item rule is a literal), its result in ret.    *)
(***************************************************************************)
ItemRule == <<"integer">>
LiteralItem == Lit(<<"a">>)

Counts == {<<lo, hi>> : lo \in 0..MaxTimes, hi \in (0..MaxTimes) \cup {IntMax}}

RepetitionCall(item_rule, min_items, max_items, separator_rule, item_rule_is_literal) ==
    [Frame("build_repetition", item_rule, <<>>)
        EXCEPT !.lo = min_items, !.hi = max_items, !.acc = separator_rule,
               !.addl = JBool(item_rule_is_literal)]

RepetitionCalls ==
    {RepetitionCall(item, c[1], c[2], sep, item = LiteralItem) :
        item \in {ItemRule, LiteralItem},
        c \in {d \in Counts : d[1] <= d[2]},
        sep \in {<<>>, COMMA_SPACE}}

InitRepetition ==
    /\ pc = "build_repetition"
    /\ fetch_json = F_noop
    /\ fetched = <<>>
    /\ root_schema = S_empty
    /\ copy = S_empty
    /\ rstack = <<>>
    /\ vstack \in {<<f>> : f \in RepetitionCalls}
    /\ arg = NoArg
    /\ ret = <<>>
    /\ _rules = (N_space :> SPACE_RULE)
    /\ _refs = <<>>
    /\ _refs_being_resolved = {}
    /\ _errors = <<>>
    /\ _warnings = <<>>
    /\ output = NoOutput

BuildRepetition ==
    /\ pc = "build_repetition"
    /\ ret' = build_repetition(VTop.name, VTop.lo, VTop.hi, VTop.acc, VTop.addl.b)
    /\ pc' = "built"
    /\ UNCHANGED <<root_schema, fetch_json, fetched, copy, rstack, vstack, arg, _rules, _refs,
                   _refs_being_resolved, _errors, _warnings, output>>

NextRepetition == BuildRepetition

SpecRepetition == InitRepetition /\ [][NextRepetition]_vars

(***************************************************************************)
(* The emitted notation (GBNF), read back: the tokens of a right-hand      *)
(* side, its expression tree, and the words of terminals it derives.  A    *)
(* terminal is a quoted literal or a character class, kept as written.     *)
(***************************************************************************)
\* Where the reader of a right-hand side stands after a symbol: outside
\* ("out"), inside a quoted literal ("lit") or inside a character class.
Step(state, sym) ==
    CASE state = "out" -> (IF sym = LQ THEN "lit" ELSE IF sym = "[" THEN "class" ELSE "out")
      [] state = "lit" -> (IF sym = LQ THEN "out" ELSE "lit")
      [] state = "class" -> (IF sym = "]" THEN "out" ELSE "class")

\* The states after the symbols lo..hi of str, read from state s0.
RECURSIVE Scan(_, _, _, _)
ScanRight(str, mid, hi, left) == left \o Scan(str, mid + 1, hi, left[Len(left)])

Scan(str, lo, hi, s0) ==
    IF lo > hi THEN <<>>
    ELSE IF lo = hi THEN <<Step(s0, str[lo])>>
    ELSE ScanRight(str, (lo + hi) \div 2, hi, Scan(str, lo, (lo + hi) \div 2, s0))

Before(after, i) == IF i = 1 THEN "out" ELSE after[i - 1]

Min(S) == CHOOSE x \in S : \A y \in S : x <= y

OpSyms == {"(", ")", "|", "?", "*", "+"}

\* The token that starts at symbol i of str (after: the states of Scan).
TokenEnd(str, after, i) ==
    IF str[i] \in {LQ, "["}
    THEN Min({j \in (i + 1)..Len(str) : after[j] = "out"} \cup {Len(str) + 1})
    ELSE IF IsNameSym(str[i])
    THEN Min({j \in (i + 1)..Len(str) : ~IsNameSym(str[j])} \cup {Len(str) + 1}) - 1
    ELSE i

TokenKind(str, after, i) ==
    IF str[i] \in {LQ, "["}
    THEN (IF TokenEnd(str, after, i) > Len(str) THEN "bad" ELSE "terminal")
    ELSE IF IsNameSym(str[i]) THEN "name"
    ELSE IF str[i] \in OpSyms THEN str[i]
    ELSE "bad"

\* The symbols tokens start at: outside literals and classes, not blank, and
\* not the continuation of a name.
TokenStarts(str, after) ==
    {i \in 1..Len(str) :
        /\ Before(after, i) = "out"
        /\ str[i] \notin {SP, NL}
        /\ ~(IsNameSym(str[i]) /\ i > 1 /\ Before(after, i - 1) = "out"
             /\ IsNameSym(str[i - 1]))}

Tok(str, after, i) ==
    [k |-> TokenKind(str, after, i),
     s |-> SubSeq(str, i, Min({TokenEnd(str, after, i), Len(str)}))]

\* The elements of a set of numbers, in increasing order.
Sorted(S) == [n \in 1..Cardinality(S) |-> CHOOSE x \in S : Cardinality({y \in S : y < x}) = n - 1]

TokensAt(str, after, starts) == [n \in 1..Len(starts) |-> Tok(str, after, starts[n])]

TokensOf(str, after) == TokensAt(str, after, Sorted(TokenStarts(str, after)))

\* The tokens of a right-hand side: quoted literals and character classes
\* ("terminal", kept as written), rule names, and the operators.
Tokens(rhs) == TokensOf(rhs, Scan(rhs, 1, Len(rhs), "out"))

\* The rule names a right-hand side refers to.
NamesIn(ts) == {ts[i].s : i \in {j \in 1..Len(ts) : ts[j].k = "name"}}

RhsNames(rhs) == NamesIn(Tokens(rhs))

\* How many parentheses are open before token k.
Depth(ts, k) ==
    Cardinality({j \in 1..(k - 1) : ts[j].k = "("})
    - Cardinality({j \in 1..(k - 1) : ts[j].k = ")"})

\* The tokens of a right-hand side, with the depth of each.
Table(ts) == [toks |-> ts, depth |-> [k \in 1..Len(ts) |-> Depth(ts, k)]]

\* The last token of the primary that starts at token k: the closing
\* parenthesis of a group (0 when it is missing), or k itself.
PrimaryEnd(T, k, hi) ==
    IF T.toks[k].k = "("
    THEN Min({j \in (k + 1)..hi : T.toks[j].k = ")" /\ T.depth[j] = T.depth[k] + 1} \cup {hi + 1})
    ELSE k

\* The last of the ?, * and + that follow token k.
OpsEnd(T, k, hi) == Min({j \in (k + 1)..(hi + 1) : j > hi \/ T.toks[j].k \notin {"?", "*", "+"}}) - 1

\* The first tokens of the alternatives of the tokens lo..hi.
AltStarts(T, lo, hi) ==
    {lo} \cup {k + 1 : k \in {j \in lo..hi : T.toks[j].k = "|" /\ T.depth[j] = T.depth[lo]}}

AltEnd(T, s, lo, hi) ==
    Min({k \in s..hi : T.toks[k].k = "|" /\ T.depth[k] = T.depth[lo]} \cup {hi + 1}) - 1

\* The positions of c.word that a derivation from the tokens lo..hi (of an
\* alternation, of a sequence, of one item with its operators up to token j)
\* can end before, when it starts at a position of from.  c holds the rules,
\* the word and the names that stand for themselves in the word; any other
\* name is replaced by its rule, fuel deep at most.
RECURSIVE MatchAlt(_, _, _, _, _, _)
RECURSIVE MatchSeq(_, _, _, _, _, _)
RECURSIVE MatchItem(_, _, _, _, _, _, _)
RECURSIVE Repeat(_, _, _, _, _, _, _)
RECURSIVE MatchRule(_, _, _, _)

MatchSymbol(c, str, from) == {i + 1 : i \in {p \in from : p <= Len(c.word) /\ c.word[p] = str}}

MatchPrimary(c, T, k, pe, from, fuel) ==
    CASE T.toks[k].k = "(" -> MatchAlt(c, T, k + 1, pe - 1, from, fuel)
      [] T.toks[k].k = "terminal" -> MatchSymbol(c, T.toks[k].s, from)
      [] T.toks[k].k = "name" ->
            IF T.toks[k].s \in c.atomic THEN MatchSymbol(c, T.toks[k].s, from)
            ELSE MatchRule(c, T.toks[k].s, from, fuel)
      [] OTHER -> {}

Repeat(c, T, k, pe, j, from, fuel) ==
    IF MatchItem(c, T, k, pe, j, from, fuel) \subseteq from THEN from
    ELSE Repeat(c, T, k, pe, j, from \cup MatchItem(c, T, k, pe, j, from, fuel), fuel)

MatchItem(c, T, k, pe, j, from, fuel) ==
    IF from = {} THEN {}
    ELSE IF j = pe THEN MatchPrimary(c, T, k, pe, from, fuel)
    ELSE CASE T.toks[j].k = "?" -> from \cup MatchItem(c, T, k, pe, j - 1, from, fuel)
           [] T.toks[j].k = "*" -> Repeat(c, T, k, pe, j - 1, from, fuel)
           [] T.toks[j].k = "+" ->
                 Repeat(c, T, k, pe, j - 1, MatchItem(c, T, k, pe, j - 1, from, fuel), fuel)

MatchSeq(c, T, lo, hi, from, fuel) ==
    IF lo > hi \/ from = {} THEN from
    ELSE IF T.toks[lo].k \notin {"(", "terminal", "name"} \/ PrimaryEnd(T, lo, hi) > hi THEN {}
    ELSE MatchSeq(c, T, OpsEnd(T, PrimaryEnd(T, lo, hi), hi) + 1, hi,
                  MatchItem(c, T, lo, PrimaryEnd(T, lo, hi),
                            OpsEnd(T, PrimaryEnd(T, lo, hi), hi), from, fuel),
                  fuel)

MatchAlt(c, T, lo, hi, from, fuel) ==
    IF lo > hi THEN from
    ELSE UNION {MatchSeq(c, T, s, AltEnd(T, s, lo, hi), from, fuel) : s \in AltStarts(T, lo, hi)}

MatchTokens(c, ts, from, fuel) == MatchAlt(c, Table(ts), 1, Len(ts), from, fuel)

MatchRule(c, name, from, fuel) ==
    IF name \notin DOMAIN c.rules \/ fuel = 0 THEN {}
    ELSE MatchTokens(c, Tokens(c.rules[name]), from, fuel - 1)

\* The rule called name derives word, the names of atomic standing for
\* themselves.
Derives(rules, name, word, atomic) ==
    (Len(word) + 1) \in MatchRule([rules |-> rules, word |-> word, atomic |-> atomic],
                                  name, {1}, MaxDerivation)

\* The rules a rule refers to, directly or through other rules.
RECURSIVE ReachableFrom(_, _, _)
ReachableFrom(rules, seen, frontier) ==
    LET next == UNION {RhsNames(rules[k]) : k \in frontier \cap DOMAIN rules} \ seen
    IN  IF next = {} THEN seen ELSE ReachableFrom(rules, seen \cup next, next)

RefersTo(rules, name) == ReachableFrom(rules, {}, {name})

(***************************************************************************)
(* Properties.                                                             *)
(***************************************************************************)
\* resolve_refs and visit have completed, and nothing was recorded as wrong.
Converted == pc \in {"check_errors", "done"} /\ _errors = <<>>

\* C1: after resolve_refs and visit on the root schema completed with an
\* empty error buffer, every rule name that occurs in the right-hand side of
\* any rule of the rule table is itself a key of the rule table.
C1_EveryNameIsAKey ==
    Converted => \A k \in DOMAIN _rules : RhsNames(_rules[k]) \subseteq DOMAIN _rules

\* <name><i>
Suffixed(esc_name, i) == esc_name \o to_string(i)

\* What C2 says of one call _add_rule(name, rule): every pair of the table
\* stays, and a sanitized name bound to another right-hand side sends rule
\* to the first suffix that is absent or bound to rule.
C2_Call(name, rule) ==
    LET esc_name == Sanitize(name, FALSE)
    IN  /\ \A k \in DOMAIN _rules : k \in DOMAIN _rules' /\ _rules'[k] = _rules[k]
        /\ (esc_name \in DOMAIN _rules /\ _rules[esc_name] # rule) =>
              \E i \in 0..MaxRules :
                  /\ ret' = Suffixed(esc_name, i)
                  /\ DOMAIN _rules' = DOMAIN _rules \cup {ret'}
                  /\ _rules'[ret'] = rule
                  /\ Suffixed(esc_name, i) \in DOMAIN _rules => _rules[Suffixed(esc_name, i)] = rule
                  /\ \A j \in 0..(i - 1) :
                        /\ Suffixed(esc_name, j) \in DOMAIN _rules
                        /\ _rules[Suffixed(esc_name, j)] # rule

\* C2: in any sequence of _add_rule calls, a call _add_rule(name, rhs) leaves
\* every (key, rhs) pair of the table as it was, and when the sanitized name
\* is bound to a different right-hand side it installs rhs under <name><i>
\* for the smallest i >= 0 such that <name><i> is absent or bound to rhs.
C2_KeysKeepTheirRule ==
    [][\A name \in RuleNames, rule \in RuleBodies : AddRule(name, rule) => C2_Call(name, rule)]_vars

\* A call stored its rule under suffix 0 beside another rule for the name.
C2_Witness ==
    /\ pc = "_add_rule"
    /\ \E name \in RuleNames :
          /\ Sanitize(name, FALSE) \in DOMAIN _rules
          /\ ret = Suffixed(Sanitize(name, FALSE), 0)
          /\ ret \in DOMAIN _rules
          /\ _rules[ret] # _rules[Sanitize(name, FALSE)]

\* C3: in any reachable rule table, _add_rule(name, rhs) called again right
\* after a call with the same arguments returns the same name and leaves the
\* table as the first call left it.
C3_AddRuleIdempotent ==
    pc = "_add_rule" =>
        \A name \in RuleNames, rule \in RuleBodies :
            _add_rule(_add_rule(_rules, name, rule).rules, name, rule)
                = _add_rule(_rules, name, rule)

\* The last call had to go to suffix 1: suffix 0 holds yet another rule.
C3_Witness ==
    /\ pc = "_add_rule"
    /\ \E name \in RuleNames :
          /\ ret = Suffixed(Sanitize(name, FALSE), 1)
          /\ {Sanitize(name, FALSE), Suffixed(Sanitize(name, FALSE), 0), ret} \subseteq DOMAIN _rules
          /\ _rules[ret] \notin {_rules[Sanitize(name, FALSE)],
                                 _rules[Suffixed(Sanitize(name, FALSE), 0)]}

\* C4: conversion terminates on a schema whose $ref graph is cyclic, also
\* when an allOf member leads back to a sub-schema being expanded: with the
\* default fetcher the recursion never exhausts the stack.
C4_CyclicRefsTerminate == fetch_json = F_noop => pc # "stack_overflow"

\* C5: for the root {$ref: "#/$defs/A"} with $defs.A an object whose property
\* next is {$ref: "#/$defs/A"}, the rule generated for A's object shape (the
\* one that lists the pair of next) is reachable from itself.
C5_ObjectRuleOfARefersToItself ==
    (pc = "done" /\ root_schema = S_cyclic) =>
        \E k \in DOMAIN _rules :
            /\ <<"A", "-", "next", "-", "kv">> \in RhsNames(_rules[k])
            /\ k \in RefersTo(_rules, k)

\* C6: during one conversion fetch is called at most once for each base URI
\* (the part of an https:// $ref before '#').
C6_FetchOncePerBase ==
    \A i, j \in 1..Len(fetched) : i # j => BaseUrl(fetched[i]) # BaseUrl(fetched[j])

\* The messages of a failure text: its lines after the first.
MessagesOf(text) == Tail(split(text, NL))

\* C7: grammar text is returned only if the error buffer is empty when visit
\* has finished; otherwise check_errors raises one failure that holds every
\* recorded error in order, one per line, and format_grammar is not reached;
\* recording an error raises nothing, only check_errors does.
C7_ErrorsRaiseAtTheEnd ==
    /\ [](output.kind = "grammar" => _errors = <<>>)
    /\ []((pc \in {"done", "failed"} /\ _errors # <<>>) =>
              /\ pc = "failed"
              /\ output.kind = "exception"
              /\ MessagesOf(output.text) = _errors)
    /\ [][/\ _errors' # _errors => (output' = NoOutput /\ pc' \notin {"done", "failed"})
          /\ output' # output => (pc = "check_errors" /\ vstack = <<>> /\ rstack = <<>>)]_vars

\* A failure raised for two recorded errors.
C7_Witness == pc = "failed" /\ Len(_errors) >= 2 /\ output.kind = "exception"

\* One JSON text of each kind, as the terminals a grammar spells it with.
JsonKinds == {"object", "array", "string", "number", "boolean", "null"}

Doc(kind) ==
    CASE kind = "object" -> <<Lit(<<"{">>), Lit(<<"}">>)>>
      [] kind = "array" -> <<Lit(<<"[">>), Lit(<<"]">>)>>
      [] kind = "string" -> <<Lit(<<EQ>>), Lit(<<EQ>>)>>
      [] kind = "number" -> <<Class09>>
      [] kind = "boolean" -> <<Lit(<<"true">>)>>
      [] kind = "null" -> <<Lit(<<"null">>)>>

\* The kinds of JSON text the root rule derives.
RootKinds == {kind \in JsonKinds : Derives(_rules, N_root, Doc(kind), {})}

\* C8 as stated: compiling {} yields a root rule that derives every JSON
\* value kind (object, array, string, number, boolean, null).
C8_EmptySchemaIsValue == (pc = "done" /\ root_schema = S_empty) => RootKinds = JsonKinds

\* C8, amended: compiling {} yields a root rule that is the object primitive:
\* root derives objects (with members of any kind) and no other kind.
C8_EmptySchemaIsObject ==
    (pc = "done" /\ root_schema = S_empty) =>
        /\ RootKinds = {"object"}
        /\ Derives(_rules, N_root,
                   <<Lit(<<"{">>), Lit(<<EQ>>), Lit(<<EQ>>), Lit(<<":">>), Lit(<<"[">>),
                     Lit(<<"]">>), Lit(<<",">>), Lit(<<EQ>>), Lit(<<EQ>>), Lit(<<":">>),
                     Lit(<<"null">>), Lit(<<"}">>)>>, {})

C8_Witness == pc = "done" /\ root_schema = S_empty /\ output.kind = "grammar"

\* The elements of items with sep between them.
Interleave(items, sep) ==
    [i \in 1..(2 * Len(items) - 1) |-> IF i % 2 = 1 THEN items[(i + 1) \div 2] ELSE sep]

\* The sequences that keep some elements of list, in their order.
InOrderSubsets(list) ==
    {[n \in 1..Cardinality(S) |-> list[Sorted(S)[n]]] : S \in SUBSET (1..Len(list))}

KvName(prop_name) == prop_name \o <<"-", "kv">>
AdditionalKvName == <<"additional", "-", "kv">>

ObjectText(props, n_additional) ==
    <<Lit(<<"{">>)>>
    \o Interleave([i \in 1..Len(props) |-> KvName(props[i])]
                  \o [i \in 1..n_additional |-> AdditionalKvName], Lit(<<",">>))
    \o <<Lit(<<"}">>)>>

\* The object texts C9 speaks of, each key-value pair written as the name of
\* its kv rule.
ObjectTexts(required, optional, additional) ==
    {ObjectText(required \o some, n) :
        some \in InOrderSubsets(optional),
        n \in IF AdditionalEnabled(additional) THEN 0..2 ELSE {0}}

KvNames(required, optional) ==
    {KvName((required \o optional)[i]) : i \in 1..(Len(required) + Len(optional))}
    \cup {AdditionalKvName}

\* C9: for an object schema with required properties R, optional properties
\* O and additionalProperties enabled, every object text that lists R in
\* order, then an in-order subset of O, then zero or more additional pairs,
\* separated by commas, is in the language of root; likewise with
\* additionalProperties disabled and no additional pair.
C9_ObjectRoundTrip ==
    \A required \in PropertyLists, optional \in OptionalLists, additional \in Additionals :
        (pc = "done" /\ root_schema = ObjectSchema(required, optional, additional)) =>
            \A text \in ObjectTexts(required, optional, additional) :
                Derives(_rules, N_root, text, KvNames(required, optional))

\* C10: after an error-free conversion the rule named root is the one the
\* top-level visit installed and returned; none is pushed to root0.
C10_RootIsTheTopLevelRule ==
    Converted =>
        /\ ret = N_root
        /\ N_root \in DOMAIN _rules
        /\ Suffixed(N_root, 0) \notin DOMAIN _rules

\* Where the line name ::= ... starts in the emitted text, 0 if it has none.
LineOf(text, name) ==
    LET at_line == {i \in 1..Len(text) :
                       /\ (i = 1 \/ text[i - 1] = NL)
                       /\ i + Len(name) <= Len(text)
                       /\ SubSeq(text, i, i + Len(name) - 1) = name
                       /\ text[i + Len(name)] = " ::= "}
    IN  IF at_line = {} THEN 0 ELSE CHOOSE i \in at_line : TRUE

\* The line of a comes before the line of b in the emitted text.
PrintedBefore(text, a, b) ==
    LineOf(text, a) > 0 /\ LineOf(text, b) > 0 /\ LineOf(text, a) < LineOf(text, b)

\* C11: format_grammar emits the rules in the order of their first
\* insertion.  The constructor puts space into the table (line 554) before
\* any call of _add_rule, so space is the first rule inserted and no rule
\* is printed before it.
C11_PrintedInInsertionOrder ==
    output.kind = "grammar" =>
        \A k \in DOMAIN _rules \ {N_space} : PrintedBefore(output.text, N_space, k)

\* What stands in the emitted text at position i: the line name ::= rhs.
LineIs(text, i, name, rhs) ==
    /\ i > 0
    /\ i + Len(name) + Len(rhs) + 1 <= Len(text)
    /\ SubSeq(text, i + Len(name) + 1, i + Len(name) + Len(rhs)) = rhs
    /\ text[i + Len(name) + Len(rhs) + 1] = NL

\* C11 as the code has it: format_grammar emits one line name ::= rhs per
\* rule, in ascending order of the rule names (the order in which std::map
\* iterates its keys), whatever the order of insertion was.
C11_PrintedInKeyOrder ==
    output.kind = "grammar" =>
        /\ Cardinality({i \in 1..Len(output.text) : output.text[i] = NL})
               = Cardinality(DOMAIN _rules)
        /\ \A k \in DOMAIN _rules : LineIs(output.text, LineOf(output.text, k), k, _rules[k])
        /\ \A a, b \in DOMAIN _rules : KeyLess(a, b) => PrintedBefore(output.text, a, b)

\* A grammar was emitted whose rules were not inserted in the order of
\* their names: root came after space, and other rules after root.
C11_Witness ==
    /\ pc = "done"
    /\ output.kind = "grammar"
    /\ Cardinality(DOMAIN _rules) >= 4
    /\ PrintedBefore(output.text, N_root, N_space)

\* C12: after an error-free conversion no rule of the table has an empty
\* right-hand side.
C12_NoEmptyRightHandSide ==
    Converted => \A k \in DOMAIN _rules : _rules[k] # <<>>

\* C13: in every reachable rule table a key that is a key of a catalog is
\* bound to the content of that catalog entry; no rule derived from a
\* user-supplied name is installed under it.
C13_CatalogKeysKeepTheirContent ==
    \A k \in DOMAIN _rules :
        /\ k \in DOMAIN PRIMITIVE_RULES => _rules[k] = PRIMITIVE_RULES[k].content
        /\ k \in DOMAIN STRING_FORMAT_RULES => _rules[k] = STRING_FORMAT_RULES[k].content

\* The pattern between the anchors of a string schema.
PatternBetweenAnchors(schema) ==
    SubSeq(at(schema, K_pattern).s, 2, Len(at(schema, K_pattern).s) - 1)

\* P has an unbalanced delimiter: a ( that no ) closes, a ) that closes no
\* (, a [ that no ] closes, or a { that no } closes.  mode tells whether
\* the reader is inside a class, inside curly brackets, or outside both.
RECURSIVE UnbalancedFrom(_, _, _, _)
UnbalancedFrom(P, i, depth, mode) ==
    IF i > Len(P) THEN depth > 0 \/ mode # "out"
    ELSE IF mode = "class"
    THEN UnbalancedFrom(P, i + 1, depth, IF P[i] = "]" THEN "out" ELSE "class")
    ELSE IF mode = "curly"
    THEN UnbalancedFrom(P, i + 1, depth, IF P[i] = "}" THEN "out" ELSE "curly")
    ELSE IF P[i] = "(" THEN UnbalancedFrom(P, i + 1, depth + 1, "out")
    ELSE IF P[i] = ")"
    THEN depth = 0 \/ UnbalancedFrom(P, i + 1, depth - 1, "out")
    ELSE IF P[i] = "[" THEN UnbalancedFrom(P, i + 1, depth, "class")
    ELSE IF P[i] = "{" THEN UnbalancedFrom(P, i + 1, depth, "curly")
    ELSE UnbalancedFrom(P, i + 1, depth, "out")

Unbalanced(P) == UnbalancedFrom(P, 1, 0, "out")

\* C14: once _visit_pattern has returned for an anchored pattern ^P$ whose
\* P has an unbalanced delimiter, the error buffer holds a message.
C14_UnbalancedPatternsRecordAnError ==
    (/\ pc \in {"return", "check_errors", "done", "failed"}
     /\ contains(root_schema, K_pattern)
     /\ Unbalanced(PatternBetweenAnchors(root_schema)))
        => _errors # <<>>

\* The $ref strings of the nodes of j that visit_refs comes to: it does not
\* look at the other members of a node that has $ref.
RECURSIVE RefsVisited(_)
RefsVisited(j) ==
    IF j.t \notin {"obj", "arr"} THEN {}
    ELSE IF contains(j, K_ref) THEN {at(j, K_ref).s}
    ELSE UNION {RefsVisited(j.m[i].v) : i \in 1..Len(j.m)}

\* The sub-schema the fragment of r addresses inside doc, if its tokens exist.
Addressed(doc, r) == WalkPointer(doc, split(Pointer(r), "/"), 2, r)

\* C15: when resolve_refs is over, every https:// $ref r = base#fragment
\* with a non-empty fragment whose tokens exist in the fetched document has
\* _refs[r] equal to the sub-schema the fragment addresses inside
\* _refs[base], and no error about r was recorded.
C15_RemoteFragmentsResolve ==
    pc \notin {"resolve_refs", "stack_overflow"} =>
        \A r \in RefsVisited(root_schema) :
            (StartsWith(r, HTTPS) /\ ~NoFragment(r) /\ Addressed(fetch_json, r).ok) =>
                /\ BaseUrl(r) \in DOMAIN _refs
                /\ r \in DOMAIN _refs
                /\ _refs[r] = Addressed(_refs[BaseUrl(r)], r).target
                /\ \A i \in 1..Len(_errors) :
                       ~StartsWith(_errors[i], <<"Error resolving ref ">> \o r)

\* A right-hand side with every literal of several characters written as
\* the sequence of its one-character literals, which derives the same text.
RECURSIVE SpellFrom(_, _, _)
SpellFrom(str, i, inside) ==
    IF i > Len(str) THEN <<>>
    ELSE IF str[i] = LQ THEN <<LQ>> \o SpellFrom(str, i + 1, ~inside)
    ELSE IF inside /\ i < Len(str) /\ str[i + 1] # LQ
    THEN <<str[i], LQ, SP, LQ>> \o SpellFrom(str, i + 1, inside)
    ELSE <<str[i]>> \o SpellFrom(str, i + 1, inside)

Spell(rhs) == SpellFrom(rhs, 1, FALSE)

\* The words C16 is checked on: every sequence of at most MaxWord items and
\* separators, so that one item more than MaxTimes fits with its separators.
MaxWord == 2 * MaxTimes + 1

RepetitionWords == UNION {[1..n -> {"item", "sep"}] : n \in 0..MaxWord}

\* The text of a word: each item the terminal or the rule name item, each
\* separator the two symbols of "," space.
WordText(word, item) ==
    join([i \in 1..Len(word) |-> IF word[i] = "item" THEN <<item>> ELSE <<Lit(<<",">>), N_space>>],
         <<>>)

\* word is k items, min_items <= k <= max_items, with one separator between
\* two consecutive items when there is a separator.
IsRepetition(word, min_items, max_items, separated) ==
    \E k \in 0..(MaxWord + 1) :
        /\ min_items <= k
        /\ k <= max_items
        /\ word = IF separated THEN Interleave([i \in 1..k |-> "item"], "sep")
                  ELSE [i \in 1..k |-> "item"]

\* The text of the array whose elements are the word.
ArrayText(word, item) ==
    <<Lit(<<"[">>), N_space>> \o WordText(word, item) \o <<Lit(<<"]">>), N_space>>

\* The right-hand side whose tokens are ts derives text, items and space
\* standing for themselves.
TokensDerive(ts, text) ==
    (Len(text) + 1) \in MatchTokens([rules |-> <<>>, word |-> text, atomic |-> {ItemRule, N_space}],
                                    ts, {1}, MaxDerivation)

\* C16: for all 0 <= min <= max (max finite or unbounded), with and without
\* a separator, the fragment build_repetition(item, min, max, sep) returns
\* derives a sequence of items and separators exactly when it is k items
\* with min <= k <= max, one sep between consecutive items when sep is not
\* empty, and none leading or trailing; and the rule line 713 builds around the fragment derives an array text
\* exactly when its elements are such a sequence; with integer items, 1
\* and 3 this is the rule of the array schema with minItems 1, maxItems 3.
C16_RepetitionDerivesMinToMax ==
    pc = "built" =>
        LET fragment == Tokens(Spell(ret))
            array == Tokens(Spell(ArrayRule(ret)))
        IN  \A word \in RepetitionWords :
                /\ TokensDerive(fragment, WordText(word, VTop.name))
                      <=> IsRepetition(word, VTop.lo, VTop.hi, VTop.acc # <<>>)
                /\ VTop.acc = COMMA_SPACE =>
                      (TokensDerive(array, ArrayText(word, VTop.name))
                          <=> IsRepetition(word, VTop.lo, VTop.hi, TRUE))

C16_Witness ==
    /\ pc = "built"
    /\ VTop.lo = 1
    /\ VTop.hi = 3
    /\ VTop.acc = COMMA_SPACE
    /\ VTop.name = ItemRule
    /\ TokensDerive(Tokens(ArrayRule(ret)),
                    ArrayText(<<"item", "sep", "item", "sep", "item">>, ItemRule))
    /\ ~TokensDerive(Tokens(ArrayRule(ret)),
                     ArrayText(<<"item", "sep", "item", "sep", "item", "sep", "item">>, ItemRule))
    /\ ~TokensDerive(Tokens(ArrayRule(ret)), ArrayText(<<>>, ItemRule))

\* The ref URIs whose expansion by _resolve_ref is on the call stack, one
\* for each frame of an expansion.
RefFrames == {i \in 1..Len(vstack) : vstack[i].kind = "ref"}

Expanding == {vstack[i].ref : i \in RefFrames}

\* C17: at every point of visit the in-progress set is the set of ref URIs
\* whose expansion is on the call stack, no URI has two expansions on the
\* stack at once, and the set is empty once the top-level visit returned.
C17_InProgressIsTheStack ==
    /\ _refs_being_resolved = Expanding
    /\ \A i, j \in RefFrames : vstack[i].ref = vstack[j].ref => i = j
    /\ pc \in {"check_errors", "done", "failed"} => _refs_being_resolved = {}

C17_Witness ==
    /\ pc = "return"
    /\ Cardinality(RefFrames) >= 2
    /\ Cardinality(_refs_being_resolved) >= 2

\* Every $ref string inside j, those below a node that has $ref included.
RECURSIVE AllRefs(_)
AllRefs(j) ==
    IF j.t \notin {"obj", "arr"} THEN {}
    ELSE (IF j.t = "obj" /\ contains(j, K_ref) THEN {at(j, K_ref).s} ELSE {})
         \cup UNION {AllRefs(j.m[i].v) : i \in 1..Len(j.m)}

\* The $ref the next step looks up in the ref index: the one visit passes to
\* _resolve_ref, or the one of the allOf component add_component takes.
LookedUp ==
    IF pc = "visit" /\ Shape(arg.schema) = "ref" THEN {at(arg.schema, K_ref).s}
    ELSE IF pc = "add_component" /\ VTop.acc # <<>> /\ contains(Head(VTop.acc).v, K_ref)
    THEN {at(Head(VTop.acc).v, K_ref).s}
    ELSE {}

\* resolve_refs recorded no error.
NoResolveError ==
    \A i \in 1..Len(_errors) :
        /\ ~StartsWith(_errors[i], <<"Unsupported ref: ">>)
        /\ ~StartsWith(_errors[i], <<"Error resolving ref ">>)

\* The sub-schema r points to: its fragment followed inside the document of
\* its base, the fetched one of an https:// base or else the input schema.
PointedTo(r) ==
    IF StartsWith(r, HTTPS)
    THEN IF NoFragment(r) THEN [ok |-> BaseUrl(r) \in DOMAIN _refs, target |-> RefsAt(_refs, BaseUrl(r))]
         ELSE Addressed(RefsAt(_refs, BaseUrl(r)), r)
    ELSE Addressed(copy, r)

\* C18: if resolve_refs recorded no error, every $ref string r that visit
\* passes to _resolve_ref, or that the allOf merge looks up, is a key of the
\* ref index, _refs[r] is the sub-schema r points to, and every $ref inside
\* that stored sub-schema is in absolute form.
C18_LookedUpRefsAreIndexed ==
    NoResolveError =>
        \A r \in LookedUp :
            /\ r \in DOMAIN _refs
            /\ PointedTo(r).ok
            /\ _refs[r] = PointedTo(r).target
            /\ \A nested \in AllRefs(_refs[r]) : ~StartsWith(nested, <<"#">>)

\* The schemas whose rule does not depend on the rules of nested visits: a
\* const, an enum, a type of the primitive catalog.
Determined(schema) ==
    Shape(schema) \in {"const", "enum"} \/ (Shape(schema) = "primitive" /\ Recognized(schema))

\* The right-hand side of the rule visit generates from such a schema
\* (lines 638-645 and 735).
DeterminedRule(schema) ==
    CASE Shape(schema) = "const" -> _generate_constant_rule(at(schema, K_const))
      [] Shape(schema) = "enum" ->
            join([i \in 1..Len(at(schema, K_enum).m) |->
                      _generate_constant_rule(at(schema, K_enum).m[i].v)], OR_SEP)
      [] OTHER -> PRIMITIVE_RULES[SchemaType(schema).s].content

\* C19: the rule name _resolve_ref(r) returns denotes a rule generated from
\* _refs[r].  When visit passes r to _resolve_ref while the rule table holds
\* a rule under the trailing path component of r and r is not in progress,
\* the name returned is that component; for a stored sub-schema whose rule
\* is determined by the schema alone, the rule under it is then that rule.
C19_RefBoundToItsOwnRule ==
    (pc = "visit" /\ Shape(arg.schema) = "ref") =>
        \A r \in {at(arg.schema, K_ref).s} :
            (/\ RefName(r) \in DOMAIN _rules
             /\ r \notin _refs_being_resolved
             /\ r \in DOMAIN _refs
             /\ Determined(_refs[r]))
                => _rules[RefName(r)] = DeterminedRule(_refs[r])

====
